---- MODULE Spec2Model ----
(***************************************************************************)
(* Multi-tenant PDF ingestion service (droadmap).                          *)
(*                                                                         *)
(* The model follows the Go code: the Registry (PostgreSQL table tenants), *)
(* the per-tenant Document Stores (MongoDB databases tenant_<name>), the   *)
(* Object Store (MinIO bucket) and the three request handlers that work on *)
(* them: HandleUpload, DeleteTenant and RestoreTenant, with the two that   *)
(* list the tenants.  Every remote call                                    *)
(* of a handler is one atomic step; requests interleave between steps.     *)
(* The outcome of a remote call (success or an infrastructure error) is an *)
(* input chosen with \E.                                                   *)
(***************************************************************************)
EXTENDS Integers, Sequences, FiniteSets, TLC

VARIABLES
    registry,   \* the rows of the table tenants, in insertion order
    stores,     \* per tenant name: the MongoDB database tenant_<name>
    objects,    \* the blobs of the MinIO bucket
    clock,      \* the time NOW() / time.Now() returns
    started,    \* number of requests of each kind accepted so far
    uuids,      \* number of identifiers uuid.New() has given out
    apiKey,     \* the configured Gemini API key ("" when none is set)
    reqs,       \* per request slot: the request being served in it
    prev        \* per tenant name: how the last finished request on it ended

vars ==
    <<registry, stores, objects, clock, apiKey, started, uuids, reqs, prev>>

---------------------------------------------------------------------------
(* Bounds of the model *)

\* upload, delete and restore requests accepted in one behaviour (rejected
\* requests are not limited)
MaxUploads == 2
MaxDeletes == 2
MaxRestores == 2
\* requests accepted in one behaviour in which requests overlap
MaxOverlapped == 4

\* request slots: the requests that can be in flight at the same time
Slots == {1, 2}

---------------------------------------------------------------------------
(* Inputs *)

\* tenant names as sequences of characters
NameAcme == <<"a", "c", "m", "e">>
NameAb   == <<"a", "b">>
NameBeta == <<"b", "e", "t", "a">>

ValidNames == {NameAcme, NameBeta}

Lower == {"a", "b", "c", "d", "e", "f", "g", "h", "i", "j", "k", "l", "m",
          "n", "o", "p", "q", "r", "s", "t", "u", "v", "w", "x", "y", "z"}
Upper == {"A", "B", "C", "D", "E", "F", "G", "H", "I", "J", "K", "L", "M",
          "N", "O", "P", "Q", "R", "S", "T", "U", "V", "W", "X", "Y", "Z"}
Digit == {"0", "1", "2", "3", "4", "5", "6", "7", "8", "9"}

\* a ValidateTenantName that takes "less than 50 characters" by the word
ValidateTenantName_Below50(tenantName) ==
    IF tenantName = <<>> THEN "tenant name is required"
    ELSE IF Len(tenantName) < 3 THEN "tenant name must be at least 3 characters"
    ELSE IF Len(tenantName) >= 50 THEN "tenant name must be less than 50 characters"
    ELSE IF \E i \in 1..Len(tenantName) :
                tenantName[i] \notin Lower \cup Upper \cup Digit \cup {"_"}
         THEN "tenant name can only contain letters, numbers, and underscores"
    ELSE ""

\* tenant_service.go ValidateTenantName: "" when the name is valid, else
\* the error
ValidateTenantName(tenantName) ==
    IF tenantName = <<>> THEN "tenant name is required"
    ELSE IF Len(tenantName) < 3 THEN "tenant name must be at least 3 characters"
    ELSE IF Len(tenantName) > 50 THEN "tenant name must be less than 50 characters"
    ELSE IF \E i \in 1..Len(tenantName) :
                tenantName[i] \notin Lower \cup Upper \cup Digit \cup {"_"}
         THEN "tenant name can only contain letters, numbers, and underscores"
    ELSE ""

\* an uploaded file: its name (characters) and its size in bytes; NoFile
\* is a request without the form field pdf
\* what the PDF library finds in the bytes of a file: an error of pdf.Open,
\* or the text of the pages
PdfUnreadable == <<"pdf.Open", "error">>

NoFile == [filename |-> <<>>, size |-> -1, pdf |-> <<>>]
FilePdf ==
    [filename |-> <<"a", ".", "P", "d", "f">>, size |-> 10240,
     pdf |-> <<"I", "n", "t", "r", "o", ".", " ", "B", "o", "d", "y", ".", "\n">>]
FileScan ==
    [filename |-> <<"s", ".", "p", "d", "f">>, size |-> 2048,
     pdf |-> PdfUnreadable]
FileBlank ==
    [filename |-> <<"b", ".", "p", "d", "f">>, size |-> 512,
     pdf |-> <<" ", "\n">>]
FileEmpty == [filename |-> <<"e", ".", "p", "d", "f">>, size |-> 0, pdf |-> <<>>]
Files == {FilePdf, FileScan, FileBlank, FileEmpty, NoFile}

ToLower(ch) ==
    CASE ch = "P" -> "p" [] ch = "D" -> "d" [] ch = "F" -> "f" [] OTHER -> ch

HasSuffixPdf(s) ==
    /\ Len(s) >= 4
    /\ [i \in 1..4 |-> ToLower(s[Len(s) - 4 + i])] = <<".", "p", "d", "f">>

MaxFileSize == 52428800

\* a ValidatePDF that rejects a file of exactly 50 MB
ValidatePDF_Below50MB(file) ==
    IF file = NoFile THEN "file is required"
    ELSE IF ~HasSuffixPdf(file.filename) THEN "file must be a PDF"
    ELSE IF file.size >= MaxFileSize THEN "file size must be less than 50MB"
    ELSE IF file.size = 0 THEN "file is empty"
    ELSE ""

\* pdf_service.go ValidatePDF: "" when the file is accepted
ValidatePDF(file) ==
    IF file = NoFile THEN "file is required"
    ELSE IF ~HasSuffixPdf(file.filename) THEN "file must be a PDF"
    ELSE IF file.size > MaxFileSize THEN "file size must be less than 50MB"
    ELSE IF file.size = 0 THEN "file is empty"
    ELSE ""

---------------------------------------------------------------------------
(* Registry: repository/postgres.go *)

\* a NULL timestamp (models.Tenant.DeletedAt == nil)
Null == -1

\* the time after a call that read NOW(): time has passed when the call
\* stored what it read (a time that was read and dropped is seen nowhere)
Tick(stored) == IF stored THEN clock + 1 ELSE clock

MongoPort == 27017

\* fmt.Sprintf("tenant_%s", tenantName)
DBName(tenantName) == <<"t", "e", "n", "a", "n", "t", "_">> \o tenantName

\* no row (the zero models.Tenant)
NoTenant ==
    [id |-> 0, tenant_name |-> <<>>, db_host |-> "", db_port |-> 0,
     db_name |-> <<>>, status |-> "", is_deleted |-> FALSE,
     deleted_at |-> Null, created_at |-> Null]

\* the row indexes WHERE tenant_name = $1 AND is_deleted = <deleted>
RowsWhere(reg, tenantName, deleted) ==
    {i \in DOMAIN reg :
        reg[i].tenant_name = tenantName /\ reg[i].is_deleted = deleted}

Min(S) == CHOOSE x \in S : \A y \in S : x <= y

\* GetTenantByName: SELECT ... WHERE tenant_name = $1 AND is_deleted = FALSE;
\* QueryRow(...).Scan gives the first row, or pgx.ErrNoRows
GetTenantByName(reg, tenantName) ==
    LET rows == RowsWhere(reg, tenantName, FALSE)
    IN  IF rows = {} THEN [err |-> "ErrNoRows", tenant |-> NoTenant]
        ELSE [err |-> "", tenant |-> reg[Min(rows)]]

\* the tenants table without the UNIQUE constraint on tenant_name
UniqueViolation_NoConstraint(reg, tenantName) == FALSE

\* tenant_name VARCHAR(255) UNIQUE NOT NULL: the insert of a name some row
\* (deleted or not) already carries is refused
UniqueViolation(reg, tenantName) ==
    \E i \in DOMAIN reg : reg[i].tenant_name = tenantName

\* CreateTenant: INSERT INTO tenants (tenant_name, db_host, db_port, db_name,
\* status) ... RETURNING id, created_at, updated_at; is_deleted and
\* deleted_at take the column defaults FALSE and NULL
CreateTenant(reg, tenant, now) ==
    IF UniqueViolation(reg, tenant.tenant_name)
    THEN [err |-> "unique_violation", reg |-> reg, tenant |-> tenant]
    ELSE LET row == [tenant EXCEPT !.id = Len(reg) + 1,
                                   !.is_deleted = FALSE,
                                   !.deleted_at = Null,
                                   !.created_at = now]
         IN  [err |-> "", reg |-> Append(reg, row), tenant |-> row]

\* an UPDATE that sets status and deleted_at and leaves is_deleted alone
PostgresDeleteTenant_StatusOnly(reg, tenantName, now) ==
    LET rows == RowsWhere(reg, tenantName, FALSE)
    IN  [err |-> IF rows = {} THEN "not found or already deleted" ELSE "",
         reg |-> [i \in DOMAIN reg |->
                    IF i \in rows
                    THEN [reg[i] EXCEPT !.deleted_at = now,
                                        !.status = "deleted"]
                    ELSE reg[i]]]

\* a DeleteTenant that removes the row: DELETE FROM tenants WHERE
\* tenant_name = $1 AND is_deleted = FALSE
PostgresDeleteTenant_Erases(reg, tenantName, now) ==
    LET rows == RowsWhere(reg, tenantName, FALSE)
    IN  [err |-> IF rows = {} THEN "not found or already deleted" ELSE "",
         reg |-> SelectSeq(reg, LAMBDA row :
                    ~(row.tenant_name = tenantName /\ ~row.is_deleted))]

\* an UPDATE of DeleteTenant without "AND is_deleted = FALSE"
PostgresDeleteTenant_Unconditional(reg, tenantName, now) ==
    LET rows == {i \in DOMAIN reg : reg[i].tenant_name = tenantName}
    IN  [err |-> IF rows = {} THEN "not found or already deleted" ELSE "",
         reg |-> [i \in DOMAIN reg |->
                    IF i \in rows
                    THEN [reg[i] EXCEPT !.is_deleted = TRUE,
                                        !.deleted_at = now,
                                        !.status = "deleted"]
                    ELSE reg[i]]]

\* DeleteTenant (postgres.go): UPDATE tenants SET is_deleted = TRUE,
\* deleted_at = NOW(), status = 'deleted' WHERE tenant_name = $1 AND
\* is_deleted = FALSE; an error when no row was affected
PostgresDeleteTenant(reg, tenantName, now) ==
    LET rows == RowsWhere(reg, tenantName, FALSE)
    IN  [err |-> IF rows = {} THEN "not found or already deleted" ELSE "",
         reg |-> [i \in DOMAIN reg |->
                    IF i \in rows
                    THEN [reg[i] EXCEPT !.is_deleted = TRUE,
                                        !.deleted_at = now,
                                        !.status = "deleted"]
                    ELSE reg[i]]]

\* an UPDATE of RestoreTenant without "AND is_deleted = TRUE"
PostgresRestoreTenant_AnyRow(reg, tenantName) ==
    LET rows == {i \in DOMAIN reg : reg[i].tenant_name = tenantName}
    IN  [err |-> IF rows = {} THEN "not found or not deleted" ELSE "",
         reg |-> [i \in DOMAIN reg |->
                    IF i \in rows
                    THEN [reg[i] EXCEPT !.is_deleted = FALSE,
                                        !.deleted_at = Null,
                                        !.status = "active"]
                    ELSE reg[i]]]

\* an UPDATE of RestoreTenant that leaves deleted_at as it was
PostgresRestoreTenant_KeepsDeletedAt(reg, tenantName) ==
    LET rows == RowsWhere(reg, tenantName, TRUE)
    IN  [err |-> IF rows = {} THEN "not found or not deleted" ELSE "",
         reg |-> [i \in DOMAIN reg |->
                    IF i \in rows
                    THEN [reg[i] EXCEPT !.is_deleted = FALSE,
                                        !.status = "active"]
                    ELSE reg[i]]]

\* RestoreTenant (postgres.go): UPDATE tenants SET is_deleted = FALSE,
\* deleted_at = NULL, status = 'active' WHERE tenant_name = $1 AND
\* is_deleted = TRUE; an error when no row was affected
PostgresRestoreTenant(reg, tenantName) ==
    LET rows == RowsWhere(reg, tenantName, TRUE)
    IN  [err |-> IF rows = {} THEN "not found or not deleted" ELSE "",
         reg |-> [i \in DOMAIN reg |->
                    IF i \in rows
                    THEN [reg[i] EXCEPT !.is_deleted = FALSE,
                                        !.deleted_at = Null,
                                        !.status = "active"]
                    ELSE reg[i]]]

\* the rows S of reg as a list, by descending key (created_at or
\* deleted_at); rows with equal keys come in either order
RowsDesc(reg, S, key) ==
    LET ix == CHOOSE q \in [1..Cardinality(S) -> S] :
                  \A a, b \in 1..Cardinality(S) :
                      a < b => /\ q[a] # q[b]
                               /\ reg[q[a]][key] >= reg[q[b]][key]
    IN  [k \in 1..Cardinality(S) |-> reg[ix[k]]]

\* ListTenants: SELECT ... WHERE is_deleted = FALSE ORDER BY created_at DESC
ListTenants(reg) ==
    RowsDesc(reg, {i \in DOMAIN reg : reg[i].is_deleted = FALSE}, "created_at")

\* a ListDeletedTenants without the WHERE clause
ListDeletedTenants_NoFilter(reg) == RowsDesc(reg, DOMAIN reg, "deleted_at")

\* a ListDeletedTenants with ORDER BY created_at DESC
ListDeletedTenants_ByCreation(reg) ==
    RowsDesc(reg, {i \in DOMAIN reg : reg[i].is_deleted = TRUE}, "created_at")

\* ListDeletedTenants: SELECT ... WHERE is_deleted = TRUE ORDER BY
\* deleted_at DESC
ListDeletedTenants(reg) ==
    RowsDesc(reg, {i \in DOMAIN reg : reg[i].is_deleted = TRUE}, "deleted_at")

---------------------------------------------------------------------------
(* Document Stores: repository/mongodb.go *)

\* a tenant database before anything was written to it
NoStore == [exists |-> FALSE, docs |-> <<>>]

\* the documents matching {"is_deleted": {"$ne": true}}
LiveDocs(docs) == {i \in DOMAIN docs : docs[i].is_deleted # TRUE}

\* the documents matching {"is_deleted": true}
DeletedDocs(docs) == {i \in DOMAIN docs : docs[i].is_deleted = TRUE}

\* InsertDocument: InsertOne; the store assigns the _id.  MongoDB creates
\* the database and the collection on the first write.
InsertDocument(store, doc) ==
    LET d == [doc EXCEPT !.id = Len(store.docs) + 1]
    IN  [store |-> [exists |-> TRUE, docs |-> Append(store.docs, d)],
         doc |-> d]

\* the update of SoftDeleteAllDocuments applied to the documents S
MarkDeleted(docs, S, now) ==
    [i \in DOMAIN docs |->
        IF i \in S THEN [docs[i] EXCEPT !.is_deleted = TRUE, !.deleted_at = now]
        ELSE docs[i]]

\* a SoftDeleteAllDocuments whose filter matches no document
SoftDeleteAllDocuments_MarksNone(store, now) ==
    [store |-> store, modifiedCount |-> 0]

\* a SoftDeleteAllDocuments that reports every document of the collection
SoftDeleteAllDocuments_CountsAll(store, now) ==
    [store |-> [store EXCEPT !.docs = MarkDeleted(@, LiveDocs(@), now)],
     modifiedCount |-> Len(store.docs)]

\* SoftDeleteAllDocuments: UpdateMany on the non-deleted documents;
\* returns result.ModifiedCount
SoftDeleteAllDocuments(store, now) ==
    [store |-> [store EXCEPT !.docs = MarkDeleted(@, LiveDocs(@), now)],
     modifiedCount |-> Cardinality(LiveDocs(store.docs))]

\* an update of RestoreAllDocuments without the $unset of deleted_at
Unmark_KeepsDeletedAt(docs, S) ==
    [i \in DOMAIN docs |->
        IF i \in S THEN [docs[i] EXCEPT !.is_deleted = FALSE] ELSE docs[i]]

\* the update of RestoreAllDocuments applied to the documents S:
\* $set is_deleted false, $unset deleted_at
Unmark(docs, S) ==
    [i \in DOMAIN docs |->
        IF i \in S THEN [docs[i] EXCEPT !.is_deleted = FALSE, !.deleted_at = Null]
        ELSE docs[i]]

\* a RestoreAllDocuments whose filter matches the non-deleted documents
RestoreAllDocuments_WrongFilter(store) ==
    [store |-> [store EXCEPT !.docs = Unmark(@, LiveDocs(@))],
     modifiedCount |-> 0]

\* a RestoreAllDocuments that calls UpdateOne: it unmarks the first deleted
\* document only
RestoreAllDocuments_UpdateOne(store) ==
    LET S == IF DeletedDocs(store.docs) = {} THEN {}
             ELSE {Min(DeletedDocs(store.docs))}
    IN  [store |-> [store EXCEPT !.docs = Unmark(@, S)],
         modifiedCount |-> Cardinality(S)]

\* RestoreAllDocuments: UpdateMany on the deleted documents; returns
\* result.ModifiedCount
RestoreAllDocuments(store) ==
    [store |-> [store EXCEPT !.docs = Unmark(@, DeletedDocs(@))],
     modifiedCount |-> Cardinality(DeletedDocs(store.docs))]

---------------------------------------------------------------------------
(* Text: services/pdf_service.go and services/ai_service.go.  A Go string  *)
(* is the sequence of its characters.                                      *)

Space == {" ", "\n", "\t", "\r"}

\* s[from..to], 1-based and inclusive (the Go slice s[from-1:to])
Slice(s, from, to) == [i \in 1..(to - from + 1) |-> s[from + i - 1]]

\* strings.TrimSpace
TrimSpace(s) ==
    LET keep == {i \in 1..Len(s) : s[i] \notin Space}
    IN  IF keep = {} THEN <<>>
        ELSE Slice(s, Min(keep), CHOOSE x \in keep : \A y \in keep : y <= x)

\* strings.LastIndex(s, "."): the 0-based index of the last ".", or -1
LastIndexPeriod(s) ==
    LET at == {i \in 1..Len(s) : s[i] = "."}
    IN  IF at = {} THEN -1
        ELSE (CHOOSE x \in at : \A y \in at : y <= x) - 1

PlaceholderHead ==
    <<"P", "D", "F", " ", "f", "i", "l", "e", ":", " ">>
PlaceholderUnreadable ==
    <<" ", "(", "T", "e", "x", "t", " ", "e", "x", "t", "r", "a", "c", "t",
      "i", "o", "n", " ", "n", "o", "t", " ", "a", "v", "a", "i", "l", "a",
      "b", "l", "e", " ", "-", " ", "P", "D", "F", " ", "m", "a", "y", " ",
      "b", "e", " ", "s", "c", "a", "n", "n", "e", "d", ",", " ", "e", "n",
      "c", "r", "y", "p", "t", "e", "d", ",", " ", "o", "r", " ", "i", "n",
      " ", "u", "n", "s", "u", "p", "p", "o", "r", "t", "e", "d", " ", "f",
      "o", "r", "m", "a", "t", ")">>
PlaceholderNoText ==
    <<" ", "(", "N", "o", " ", "t", "e", "x", "t", " ", "c", "o", "n", "t",
      "e", "n", "t", " ", "f", "o", "u", "n", "d", " ", "-", " ", "P", "D",
      "F", " ", "m", "a", "y", " ", "b", "e", " ", "i", "m", "a", "g", "e",
      "-", "b", "a", "s", "e", "d", " ", "o", "r", " ", "s", "c", "a", "n",
      "n", "e", "d", ")">>

\* ExtractText: [err, text].  io is the error of file.Open, os.CreateTemp or
\* io.Copy ("" when they succeed).
ExtractText(file, io) ==
    IF io # "" THEN [err |-> io, text |-> <<>>]
    ELSE IF file.pdf = PdfUnreadable
    THEN [err |-> "",
          text |-> PlaceholderHead \o file.filename \o PlaceholderUnreadable]
    ELSE IF TrimSpace(file.pdf) = <<>>
    THEN [err |-> "",
          text |-> PlaceholderHead \o file.filename \o PlaceholderNoText]
    ELSE [err |-> "", text |-> TrimSpace(file.pdf)]

FallbackMaxLen == 500
FallbackMinPeriod == 100
MaxChars == 30000
Ellipsis == <<".", ".", ".">>

\* a generateFallbackSummary that never cuts at a period
generateFallbackSummary_NoSentenceCut(text) ==
    LET maxLen == IF Len(text) < FallbackMaxLen THEN Len(text) ELSE FallbackMaxLen
    IN  TrimSpace(Slice(text, 1, maxLen)) \o Ellipsis

\* generateFallbackSummary
generateFallbackSummary(text) ==
    LET maxLen == IF Len(text) < FallbackMaxLen THEN Len(text) ELSE FallbackMaxLen
        summary == Slice(text, 1, maxLen)
        lastPeriod == LastIndexPeriod(summary)
        cut == IF lastPeriod > FallbackMinPeriod
               THEN Slice(summary, 1, lastPeriod + 1)
               ELSE summary
    IN  TrimSpace(cut) \o Ellipsis

\* what the Gemini call gives: an error of callGeminiAPI, or the text of the
\* first part of the first candidate
apiErrors ==
    {"API request failed", "read response", "status", "parse response",
     "no text in response"}
apiTexts == {<<"S", "u", "m", ".", "\n">>, <<" ">>}
apiResults ==
    [err : apiErrors, text : {<<>>}] \cup [err : {""}, text : apiTexts]

\* callGeminiAPI: the text is returned through strings.TrimSpace
callGeminiAPI(api) ==
    IF api.err # "" THEN [err |-> api.err, text |-> <<>>]
    ELSE [err |-> "", text |-> TrimSpace(api.text)]

\* a GenerateSummary that returns the error of callGeminiAPI
GenerateSummary_ReturnsError(key, text, api) ==
    IF key = ""
    THEN [err |-> "", summary |-> generateFallbackSummary(text), attempts |-> 0]
    ELSE [err |-> callGeminiAPI(api).err, summary |-> callGeminiAPI(api).text,
          attempts |-> 1]

\* GenerateSummary: [err, summary, attempts]; attempts counts the calls of
\* callGeminiAPI, which is called once and not again when it fails
GenerateSummary(key, text, api) ==
    IF key = ""
    THEN [err |-> "", summary |-> generateFallbackSummary(text), attempts |-> 0]
    ELSE LET t == IF Len(text) > MaxChars
                  THEN Slice(text, 1, MaxChars) \o Ellipsis ELSE text
             r == callGeminiAPI(api)
         IN  IF r.err # ""
             THEN [err |-> "", summary |-> generateFallbackSummary(t),
                   attempts |-> 1]
             ELSE [err |-> "", summary |-> r.text, attempts |-> 1]

\* the summary HandleUpload stores when GenerateSummary returns an error
SummaryFailed ==
    <<"S", "u", "m", "m", "a", "r", "y", " ", "g", "e", "n", "e", "r", "a",
      "t", "i", "o", "n", " ", "f", "a", "i", "l", "e", "d", ".", " ", "P",
      "l", "e", "a", "s", "e", " ", "c", "h", "e", "c", "k", " ", "A", "I",
      " ", "s", "e", "r", "v", "i", "c", "e", " ", "c", "o", "n", "f", "i",
      "g", "u", "r", "a", "t", "i", "o", "n", ".">>

---------------------------------------------------------------------------
(* Object Store: services/storage_service.go *)

NoPath == [tenant |-> <<>>, uuid |-> 0, ext |-> <<>>]

\* filepath.Ext: the suffix from the last "." on ("" when there is none)
Ext(filename) ==
    LET i == LastIndexPeriod(filename)
    IN  IF i < 0 THEN <<>> ELSE Slice(filename, i + 1, Len(filename))

\* an objectKey without the uuid: <tenantName>/<date><ext>
ObjectKey_NoUuid(tenantName, uuid, file) ==
    [tenant |-> tenantName, uuid |-> 0, ext |-> Ext(file.filename)]

\* objectKey: <tenantName>/<date>/<uuid><ext>; uuid.New() is fresh for every
\* call (a counter stands for it)
ObjectKey(tenantName, uuid, file) ==
    [tenant |-> tenantName, uuid |-> uuid, ext |-> Ext(file.filename)]

\* UploadFile: PutObject of the file under the key; [err, path, objects]
UploadFile(objs, tenantName, uuid, file, putErr) ==
    IF putErr # "" THEN [err |-> putErr, path |-> NoPath, objects |-> objs]
    ELSE LET key == ObjectKey(tenantName, uuid, file)
         IN  [err |-> "", path |-> key,
              objects |-> objs \cup {[key |-> key, file |-> file]}]

---------------------------------------------------------------------------
(* Requests *)

\* how the last finished request on a tenant ended
NoPrev == [kind |-> "none", status |-> 0, at |-> "", live0 |-> {}]

NoApi == [err |-> "", text |-> <<>>]

\* an empty request slot
IdleReq ==
    [kind |-> "none", name |-> <<>>, file |-> NoFile, pc |-> "idle",
     status |-> 0, error |-> "", tenant |-> NoTenant, text |-> <<>>,
     path |-> NoPath, summary |-> <<>>, docId |-> 0, count |-> 0,
     flipped |-> FALSE,
     \* history: the calls made so far, the answer of the Gemini API and the
     \* number of times it was called, the pc
     \* the request failed at, the last request on the tenant before this
     \* one, and the live Documents (their ids) and the Registry rows (id
     \* and is_deleted) of the tenant when the request was received
     calls |-> <<>>, api |-> NoApi, attempts |-> 0, at |-> "",
     after |-> NoPrev,
     live0 |-> {}, rows0 |-> {},
     \* the tenants of the response of a list request
     tenants |-> <<>>]

Rest == {"idle", "done"}

Call(op, err) == [op |-> op, err |-> err]

\* the request rq ends with the response (status, error)
Respond(rq, status, error) ==
    [rq EXCEPT !.status = status, !.error = error,
               !.at = IF status = 200 THEN "" ELSE rq.pc,
               !.pc = "done"]

\* slot r now holds rq; a request that ended is remembered for its tenant
Set(r, rq) ==
    /\ reqs' = [reqs EXCEPT ![r] = rq]
    /\ prev' = IF rq.pc = "done" /\ rq.name \in ValidNames
               THEN [prev EXCEPT ![rq.name] =
                        [kind |-> rq.kind, status |-> rq.status,
                         at |-> rq.at, live0 |-> rq.live0]]
               ELSE prev

DocIds(tenantName, S) == {stores[tenantName].docs[i].id : i \in S}

\* a request of the given kind arrives in the free slot r
Receive(r, kind, tenantName, file) ==
    [IdleReq EXCEPT !.kind = kind, !.name = tenantName,
                    !.file = file,
                    !.after = IF tenantName \in ValidNames
                              THEN prev[tenantName] ELSE NoPrev,
                    !.live0 = IF tenantName \in ValidNames
                              THEN DocIds(tenantName,
                                          LiveDocs(stores[tenantName].docs))
                              ELSE {},
                    !.rows0 = {<<registry[i].id, registry[i].is_deleted>> :
                                 i \in {j \in DOMAIN registry :
                                    registry[j].tenant_name = tenantName}}]

---------------------------------------------------------------------------
(* POST /api/v1/upload: handlers/upload_handler.go HandleUpload, with      *)
(* services/tenant_service.go GetOrCreateTenant inlined at step 3          *)

\* the errors a remote call can end with: none, or, when infrastructure
\* failures are considered (faulty), the error e
Errs(faulty, e) == IF faulty THEN {"", e} ELSE {""}

\* a HandleUpload that does not call ValidatePDF
HandleUpload_SkipsValidatePDF(r, tenantName, file) ==
    /\ reqs[r].pc \in Rest
    /\ started.upload < MaxUploads
    /\ started' = IF file # NoFile /\ ValidateTenantName(tenantName) = ""
                  THEN [started EXCEPT !.upload = @ + 1] ELSE started
    /\ LET rq == Receive(r, "upload", tenantName, file)
       IN  Set(r, IF file = NoFile
                  THEN Respond(rq, 400, "PDF file is required")
                  ELSE IF ValidateTenantName(tenantName) # ""
                  THEN Respond(rq, 400, ValidateTenantName(tenantName))
                  ELSE [rq EXCEPT !.pc = "lookup"])
    /\ UNCHANGED <<registry, stores, objects, clock, apiKey, uuids>>

\* steps 1 and 2: parse the form, validate the tenant name and the file
HandleUpload(r, tenantName, file) ==
    /\ reqs[r].pc \in Rest
    /\ started.upload < MaxUploads
    /\ started' = IF file # NoFile /\ ValidateTenantName(tenantName) = ""
                     /\ ValidatePDF(file) = ""
                  THEN [started EXCEPT !.upload = @ + 1] ELSE started
    /\ LET rq == Receive(r, "upload", tenantName, file)
       IN  Set(r, IF file = NoFile
                  THEN Respond(rq, 400, "PDF file is required")
                  ELSE IF ValidateTenantName(tenantName) # ""
                  THEN Respond(rq, 400, ValidateTenantName(tenantName))
                  ELSE IF ValidatePDF(file) # ""
                  THEN Respond(rq, 400, ValidatePDF(file))
                  ELSE [rq EXCEPT !.pc = "lookup"])
    /\ UNCHANGED <<registry, stores, objects, clock, apiKey, uuids>>

\* a GetOrCreateTenant that takes every tenant for a new one
GetOrCreateTenant_AlwaysCreates(rq, pgErr) ==
    [rq EXCEPT !.calls = Append(@, Call("GetTenantByName", "ErrNoRows")),
               !.pc = "createdb"]

\* a step 3 that goes on to the extraction when the lookup failed
GetOrCreateTenant_Lookup_DropsError(rq, pgErr) ==
    LET res == IF pgErr # "" THEN [err |-> pgErr, tenant |-> NoTenant]
               ELSE GetTenantByName(registry, rq.name)
        c == [rq EXCEPT !.calls = Append(@, Call("GetTenantByName", res.err))]
    IN  IF res.err = "ErrNoRows" THEN [c EXCEPT !.pc = "createdb"]
        ELSE [c EXCEPT !.tenant = res.tenant, !.pc = "extract"]

\* a GetOrCreateTenant that takes every error of the lookup for "not found"
GetOrCreateTenant_Lookup_AnyErrorIsNew(rq, pgErr) ==
    LET res == IF pgErr # "" THEN [err |-> pgErr, tenant |-> NoTenant]
               ELSE GetTenantByName(registry, rq.name)
        c == [rq EXCEPT !.calls = Append(@, Call("GetTenantByName", res.err))]
    IN  IF res.err = "" THEN [c EXCEPT !.tenant = res.tenant, !.pc = "extract"]
        ELSE [c EXCEPT !.pc = "createdb"]

\* GetOrCreateTenant step 1: GetTenantByName.  pgErr is the error of the
\* query itself ("" when PostgreSQL answers).
GetOrCreateTenant_Lookup(rq, pgErr) ==
    LET res == IF pgErr # "" THEN [err |-> pgErr, tenant |-> NoTenant]
               ELSE GetTenantByName(registry, rq.name)
        c == [rq EXCEPT !.calls = Append(@, Call("GetTenantByName", res.err))]
    IN  IF res.err = "" THEN [c EXCEPT !.tenant = res.tenant, !.pc = "extract"]
        ELSE IF res.err # "ErrNoRows"
        THEN Respond(c, 500, "Failed to get/create tenant")
        ELSE [c EXCEPT !.pc = "createdb"]

UploadLookup(r, faulty) ==
    /\ reqs[r].pc = "lookup"
    /\ \E pgErr \in Errs(faulty, "connection refused") :
          Set(r, GetOrCreateTenant_Lookup(reqs[r], pgErr))
    /\ UNCHANGED <<registry, stores, objects, clock, apiKey, started, uuids>>

\* what db.CreateCollection answers for a collection that exists already:
\* nothing (the server accepts the repeated create), or an error with one of
\* these messages
ExistsAnswers ==
    {"", "Collection already exists",
     "(NamespaceExists) Collection already exists"}

\* a CreateTenantDatabase that passes over every error of CreateCollection
CreateTenantDatabase_IgnoresCreateError(store, ccErr, ixErr) ==
    [err |-> ixErr,
     store |-> IF ccErr = "" THEN [store EXCEPT !.exists = TRUE] ELSE store]

\* CreateTenantDatabase: [err, store].  ccErr is the error of
\* CreateCollection, ixErr the error of Indexes().CreateMany.  An error of
\* CreateCollection is passed over when its message is exactly
\* "Collection already exists" (mongo.IsDuplicateKeyError is false for
\* every error of CreateCollection).
CreateTenantDatabase(store, ccErr, ixErr) ==
    LET made == IF ccErr = "" THEN [store EXCEPT !.exists = TRUE] ELSE store
    IN  IF ccErr # "" /\ ccErr # "Collection already exists"
        THEN [err |-> "unable to create collection", store |-> store]
        ELSE [err |-> ixErr, store |-> made]

\* GetOrCreateTenant step 2
UploadCreateDb(r, faulty) ==
    /\ reqs[r].pc = "createdb"
    /\ \E ccErr \in IF stores[reqs[r].name].exists THEN ExistsAnswers
                    ELSE Errs(faulty, "server selection timeout"),
          ixErr \in Errs(faulty, "server selection timeout") :
          LET res == CreateTenantDatabase(stores[reqs[r].name], ccErr, ixErr)
              c == [reqs[r] EXCEPT
                      !.calls = Append(@, Call("CreateTenantDatabase", res.err))]
          IN  /\ stores' = [stores EXCEPT ![reqs[r].name] = res.store]
              /\ Set(r, IF res.err # ""
                        THEN Respond(c, 500, "Failed to get/create tenant")
                        ELSE [c EXCEPT !.pc = "insert"])
    /\ UNCHANGED <<registry, objects, clock, apiKey, started, uuids>>

\* the models.Tenant GetOrCreateTenant builds at step 3
NewTenant(tenantName) ==
    [NoTenant EXCEPT !.tenant_name = tenantName, !.db_host = "mongoHost",
                     !.db_port = MongoPort, !.db_name = DBName(tenantName),
                     !.status = "active"]

\* a GetOrCreateTenant that takes a uniqueness violation for "created by
\* another request" and fetches the row
GetOrCreateTenant_Refetches(rq, res) ==
    IF res.err = "unique_violation"
    THEN [rq EXCEPT !.tenant = GetTenantByName(res.reg, rq.name).tenant,
                    !.pc = "extract"]
    ELSE IF res.err # "" THEN Respond(rq, 500, "Failed to get/create tenant")
    ELSE [rq EXCEPT !.tenant = res.tenant, !.pc = "extract"]

\* GetOrCreateTenant step 3, after CreateTenant: every error of the insert
\* ends GetOrCreateTenant, and with it the upload
GetOrCreateTenant_Inserted(rq, res) ==
    IF res.err # "" THEN Respond(rq, 500, "Failed to get/create tenant")
    ELSE [rq EXCEPT !.tenant = res.tenant, !.pc = "extract"]

\* GetOrCreateTenant step 3: CreateTenant
UploadInsert(r, faulty) ==
    /\ reqs[r].pc = "insert"
    /\ \E pgErr \in Errs(faulty, "connection refused") :
          LET res == IF pgErr # ""
                     THEN [err |-> pgErr, reg |-> registry, tenant |-> NoTenant]
                     ELSE CreateTenant(registry, NewTenant(reqs[r].name), clock)
              c == [reqs[r] EXCEPT
                      !.calls = Append(@, Call("CreateTenant", res.err))]
          IN  /\ registry' = res.reg
              /\ Set(r, GetOrCreateTenant_Inserted(c, res))
              /\ clock' = Tick(res.reg # registry)
    /\ UNCHANGED <<stores, objects, apiKey, started, uuids>>

\* step 4: ExtractText
UploadExtract(r, faulty) ==
    /\ reqs[r].pc = "extract"
    /\ \E io \in Errs(faulty, "unable to create temp file") :
          LET res == ExtractText(reqs[r].file, io)
              c == [reqs[r] EXCEPT
                      !.calls = Append(@, Call("ExtractText", res.err))]
          IN  Set(r, IF res.err # ""
                     THEN Respond(c, 500, "Failed to extract PDF content")
                     ELSE [c EXCEPT !.text = res.text, !.pc = "store"])
    /\ UNCHANGED <<registry, stores, objects, clock, apiKey, started, uuids>>

\* a step 5 that goes on to record the Document without the summary
HandleUpload_StoredThenRecorded(rq, res) ==
    IF res.err # "" THEN Respond(rq, 500, "Failed to store file")
    ELSE [rq EXCEPT !.path = res.path, !.pc = "record"]

\* a step 5 that drops the error of UploadFile
HandleUpload_StoredUnchecked(rq, res) ==
    [rq EXCEPT !.path = res.path, !.pc = "summarize"]

\* step 5, after UploadFile: an error ends the request
HandleUpload_Stored(rq, res) ==
    IF res.err # "" THEN Respond(rq, 500, "Failed to store file")
    ELSE [rq EXCEPT !.path = res.path, !.pc = "summarize"]

\* step 5: UploadFile
UploadStore(r, faulty) ==
    /\ reqs[r].pc = "store"
    /\ \E putErr \in Errs(faulty, "unable to upload file") :
          LET res == UploadFile(objects, reqs[r].name, uuids + 1,
                                reqs[r].file, putErr)
              c == [reqs[r] EXCEPT
                      !.calls = Append(@, Call("UploadFile", res.err))]
          IN  /\ objects' = res.objects
              /\ Set(r, HandleUpload_Stored(c, res))
              /\ uuids' = IF res.err = "" THEN uuids + 1 ELSE uuids
    /\ UNCHANGED <<registry, stores, clock, apiKey, started>>

\* step 6: GenerateSummary; an error is replaced by a fixed message
UploadSummarize(r, results) ==
    /\ reqs[r].pc = "summarize"
    /\ \E api \in results :
          LET res == GenerateSummary(apiKey, reqs[r].text, api)
              c == [reqs[r] EXCEPT
                      !.calls = Append(@, Call("GenerateSummary", res.err))]
          IN  Set(r, [c EXCEPT !.summary = IF res.err # "" THEN SummaryFailed
                                           ELSE res.summary,
                               !.api = IF apiKey = "" THEN NoApi ELSE api,
                               !.attempts = res.attempts,
                               !.pc = "record"])
    /\ UNCHANGED <<registry, stores, objects, clock, apiKey, started, uuids>>

\* the models.Document HandleUpload builds at step 7
NewDocument(rq, now) ==
    [id |-> 0, tenant_name |-> rq.name, file_name |-> rq.file.filename,
     file_size |-> rq.file.size, storage_path |-> rq.path,
     extracted_text |-> rq.text, summary |-> rq.summary, uploaded_at |-> now,
     is_deleted |-> FALSE, deleted_at |-> Null]

\* a step 7 that removes the blob of the upload when the insert fails
UploadRecord_Compensates(r, faulty) ==
    /\ reqs[r].pc = "record"
    /\ \E dbErr \in Errs(faulty, "unable to insert document") :
          LET res == InsertDocument(stores[reqs[r].name],
                                    NewDocument(reqs[r], clock))
              c == [reqs[r] EXCEPT
                      !.calls = Append(@, Call("InsertDocument", dbErr))]
          IN  IF dbErr # ""
              THEN /\ Set(r, Respond(c, 500, "Failed to store document"))
                   /\ objects' = {o \in objects : o.key # reqs[r].path}
                   /\ UNCHANGED stores
              ELSE /\ stores' = [stores EXCEPT ![reqs[r].name] = res.store]
                   /\ Set(r, Respond([c EXCEPT !.docId = res.doc.id], 200, ""))
                   /\ UNCHANGED objects
    /\ clock' = Tick(stores' # stores)
    /\ UNCHANGED <<registry, apiKey, started, uuids>>

\* steps 7 and 8: InsertDocument, then the success response
UploadRecord(r, faulty) ==
    /\ reqs[r].pc = "record"
    /\ \E dbErr \in Errs(faulty, "unable to insert document") :
          LET res == InsertDocument(stores[reqs[r].name],
                                    NewDocument(reqs[r], clock))
              c == [reqs[r] EXCEPT
                      !.calls = Append(@, Call("InsertDocument", dbErr))]
          IN  IF dbErr # ""
              THEN /\ Set(r, Respond(c, 500, "Failed to store document"))
                   /\ UNCHANGED stores
              ELSE /\ stores' = [stores EXCEPT ![reqs[r].name] = res.store]
                   /\ Set(r, Respond([c EXCEPT !.docId = res.doc.id], 200, ""))
    /\ clock' = Tick(stores' # stores)
    /\ UNCHANGED <<registry, objects, apiKey, started, uuids>>

---------------------------------------------------------------------------
(* DELETE /api/v1/tenant/:name: TenantHandler.DeleteTenant with            *)
(* services/tenant_service.go DeleteTenant inlined                         *)

\* the handler validates the name; the service starts with
\* documents_marked_deleted = 0 and soft_deleted = false
HandleDelete(r, tenantName) ==
    /\ reqs[r].pc \in Rest
    /\ started.delete < MaxDeletes
    /\ started' = IF ValidateTenantName(tenantName) = ""
                  THEN [started EXCEPT !.delete = @ + 1] ELSE started
    /\ LET rq == Receive(r, "delete", tenantName, NoFile)
       IN  Set(r, IF ValidateTenantName(tenantName) # ""
                  THEN Respond(rq, 400, ValidateTenantName(tenantName))
                  ELSE [rq EXCEPT !.pc = "del_lookup"])
    /\ UNCHANGED <<registry, stores, objects, clock, apiKey, uuids>>

\* a DeleteTenant that goes on when the lookup found no row
DeleteTenant_Lookup_IgnoresNoRows(rq, pgErr) ==
    LET res == IF pgErr # "" THEN [err |-> pgErr, tenant |-> NoTenant]
               ELSE GetTenantByName(registry, rq.name)
        c == [rq EXCEPT !.calls = Append(@, Call("GetTenantByName", res.err))]
    IN  IF res.err \notin {"", "ErrNoRows"}
        THEN Respond(c, 500, "error checking tenant")
        ELSE [c EXCEPT !.tenant = res.tenant, !.pc = "del_mark"]

\* a DeleteTenant that, having found the tenant, waits for the uploads of
\* the tenant to end before it goes on, and is never woken
DeleteTenant_Lookup_Waits(rq, pgErr) ==
    LET res == IF pgErr # "" THEN [err |-> pgErr, tenant |-> NoTenant]
               ELSE GetTenantByName(registry, rq.name)
        c == [rq EXCEPT !.calls = Append(@, Call("GetTenantByName", res.err))]
    IN  IF res.err = "ErrNoRows" THEN Respond(c, 500, "tenant not found")
        ELSE IF res.err # "" THEN Respond(c, 500, "error checking tenant")
        ELSE [c EXCEPT !.tenant = res.tenant,
                       !.pc = IF \E r \in Slots : reqs[r].kind = "upload"
                                                  /\ reqs[r].pc \notin Rest
                              THEN "del_wait" ELSE "del_mark"]

\* DeleteTenant step 1: GetTenantByName
DeleteTenant_Lookup(rq, pgErr) ==
    LET res == IF pgErr # "" THEN [err |-> pgErr, tenant |-> NoTenant]
               ELSE GetTenantByName(registry, rq.name)
        c == [rq EXCEPT !.calls = Append(@, Call("GetTenantByName", res.err))]
    IN  IF res.err = "ErrNoRows" THEN Respond(c, 500, "tenant not found")
        ELSE IF res.err # "" THEN Respond(c, 500, "error checking tenant")
        ELSE [c EXCEPT !.tenant = res.tenant, !.pc = "del_mark"]

DeleteLookup(r, faulty) ==
    /\ reqs[r].pc = "del_lookup"
    /\ \E pgErr \in Errs(faulty, "connection refused") :
          Set(r, DeleteTenant_Lookup(reqs[r], pgErr))
    /\ UNCHANGED <<registry, stores, objects, clock, apiKey, started, uuids>>

\* a DeleteTenant whose UpdateMany runs on the store of every tenant
DeleteMark_EveryStore(r, faulty) ==
    /\ reqs[r].pc = "del_mark"
    /\ \E err \in Errs(faulty, "unable to soft delete documents") :
          LET res == SoftDeleteAllDocuments(stores[reqs[r].name], clock)
              c == [reqs[r] EXCEPT
                      !.calls = Append(@, Call("SoftDeleteAllDocuments", err))]
          IN  IF err = ""
              THEN /\ stores' = [t \in ValidNames |->
                                   SoftDeleteAllDocuments(stores[t], clock).store]
                   /\ Set(r, [c EXCEPT !.count = res.modifiedCount,
                                       !.pc = "del_flip"])
              ELSE /\ UNCHANGED stores
                   /\ Set(r, Respond(c, 500, "failed to soft delete documents"))
    /\ clock' = Tick(stores' # stores)
    /\ UNCHANGED <<registry, objects, apiKey, started, uuids>>

\* DeleteTenant step 2: SoftDeleteAllDocuments.  UpdateMany is not atomic
\* over the documents: when it fails, any part of them may be marked.
DeleteMark(r, faulty) ==
    /\ reqs[r].pc = "del_mark"
    /\ \E err \in Errs(faulty, "unable to soft delete documents") :
       \E S \in IF err = "" THEN {LiveDocs(stores[reqs[r].name].docs)}
                ELSE SUBSET LiveDocs(stores[reqs[r].name].docs) :
          LET store == stores[reqs[r].name]
              res == SoftDeleteAllDocuments(store, clock)
              c == [reqs[r] EXCEPT
                      !.calls = Append(@, Call("SoftDeleteAllDocuments", err))]
          IN  IF err = ""
              THEN /\ stores' = [stores EXCEPT ![reqs[r].name] = res.store]
                   /\ Set(r, [c EXCEPT !.count = res.modifiedCount,
                                       !.pc = "del_flip"])
              ELSE /\ stores' = [stores EXCEPT ![reqs[r].name].docs =
                                    MarkDeleted(@, S, clock)]
                   /\ Set(r, Respond(c, 500, "failed to soft delete documents"))
    /\ clock' = Tick(stores' # stores)
    /\ UNCHANGED <<registry, objects, apiKey, started, uuids>>

\* a DeleteTenant that removes the blobs of the tenant once the row is
\* flipped
DeleteFlip_PurgesBlobs(r, faulty) ==
    /\ reqs[r].pc = "del_flip"
    /\ \E pgErr \in Errs(faulty, "connection refused") :
          LET res == IF pgErr # "" THEN [err |-> pgErr, reg |-> registry]
                     ELSE PostgresDeleteTenant(registry, reqs[r].name, clock)
              c == [reqs[r] EXCEPT
                      !.calls = Append(@, Call("DeleteTenant", res.err))]
          IN  /\ registry' = res.reg
              /\ Set(r, IF res.err # ""
                        THEN Respond(c, 500, "failed to soft delete tenant")
                        ELSE Respond([c EXCEPT !.flipped = TRUE], 200, ""))
              /\ objects' = IF res.err # "" THEN objects
                            ELSE {o \in objects : o.key.tenant # reqs[r].name}
              /\ clock' = Tick(res.reg # registry)
    /\ UNCHANGED <<stores, apiKey, started, uuids>>

\* DeleteTenant step 3: DeleteTenant of the Registry
DeleteFlip(r, faulty) ==
    /\ reqs[r].pc = "del_flip"
    /\ \E pgErr \in Errs(faulty, "connection refused") :
          LET res == IF pgErr # "" THEN [err |-> pgErr, reg |-> registry]
                     ELSE PostgresDeleteTenant(registry, reqs[r].name, clock)
              c == [reqs[r] EXCEPT
                      !.calls = Append(@, Call("DeleteTenant", res.err))]
          IN  /\ registry' = res.reg
              /\ Set(r, IF res.err # ""
                        THEN Respond(c, 500, "failed to soft delete tenant")
                        ELSE Respond([c EXCEPT !.flipped = TRUE], 200, ""))
              /\ clock' = Tick(res.reg # registry)
    /\ UNCHANGED <<stores, objects, apiKey, started, uuids>>

---------------------------------------------------------------------------
(* POST /api/v1/tenant/:name/restore: TenantHandler.RestoreTenant with     *)
(* services/tenant_service.go RestoreTenant inlined                        *)

HandleRestore(r, tenantName) ==
    /\ reqs[r].pc \in Rest
    /\ started.restore < MaxRestores
    /\ started' = IF ValidateTenantName(tenantName) = ""
                  THEN [started EXCEPT !.restore = @ + 1] ELSE started
    /\ LET rq == Receive(r, "restore", tenantName, NoFile)
       IN  Set(r, IF ValidateTenantName(tenantName) # ""
                  THEN Respond(rq, 400, ValidateTenantName(tenantName))
                  ELSE [rq EXCEPT !.pc = "res_flip"])
    /\ UNCHANGED <<registry, stores, objects, clock, apiKey, uuids>>

\* a RestoreTenant that goes on to unmark the Documents whatever the
\* Registry answered
RestoreFlip_IgnoresError(r, faulty) ==
    /\ reqs[r].pc = "res_flip"
    /\ \E pgErr \in Errs(faulty, "connection refused") :
          LET res == IF pgErr # "" THEN [err |-> pgErr, reg |-> registry]
                     ELSE PostgresRestoreTenant(registry, reqs[r].name)
              c == [reqs[r] EXCEPT
                      !.calls = Append(@, Call("RestoreTenant", res.err))]
          IN  /\ registry' = res.reg
              /\ Set(r, [c EXCEPT !.flipped = res.err = "",
                                  !.pc = "res_unmark"])
    /\ UNCHANGED <<stores, objects, clock, apiKey, started, uuids>>

\* RestoreTenant step 1: RestoreTenant of the Registry
RestoreFlip(r, faulty) ==
    /\ reqs[r].pc = "res_flip"
    /\ \E pgErr \in Errs(faulty, "connection refused") :
          LET res == IF pgErr # "" THEN [err |-> pgErr, reg |-> registry]
                     ELSE PostgresRestoreTenant(registry, reqs[r].name)
              c == [reqs[r] EXCEPT
                      !.calls = Append(@, Call("RestoreTenant", res.err))]
          IN  /\ registry' = res.reg
              /\ Set(r, IF res.err # ""
                        THEN Respond(c, 500, "failed to restore tenant")
                        ELSE [c EXCEPT !.flipped = TRUE, !.pc = "res_unmark"])
    /\ UNCHANGED <<stores, objects, clock, apiKey, started, uuids>>

\* RestoreTenant step 2: RestoreAllDocuments; when UpdateMany fails, any part
\* of the documents may be unmarked
RestoreUnmark(r, faulty) ==
    /\ reqs[r].pc = "res_unmark"
    /\ \E err \in Errs(faulty, "unable to restore documents") :
       \E S \in IF err = "" THEN {DeletedDocs(stores[reqs[r].name].docs)}
                ELSE SUBSET DeletedDocs(stores[reqs[r].name].docs) :
          LET store == stores[reqs[r].name]
              res == RestoreAllDocuments(store)
              c == [reqs[r] EXCEPT
                      !.calls = Append(@, Call("RestoreAllDocuments", err))]
          IN  IF err = ""
              THEN /\ stores' = [stores EXCEPT ![reqs[r].name] = res.store]
                   /\ Set(r, Respond([c EXCEPT !.count = res.modifiedCount],
                                     200, ""))
              ELSE /\ stores' = [stores EXCEPT ![reqs[r].name].docs =
                                    Unmark(@, S)]
                   /\ Set(r, Respond(c, 500, "failed to restore documents"))
    /\ UNCHANGED <<registry, objects, clock, apiKey, started, uuids>>

---------------------------------------------------------------------------
(* GET /api/v1/tenants and GET /api/v1/tenants/deleted: TenantHandler      *)
(* ListTenants and ListDeletedTenants.  The handler makes one call, the    *)
(* SELECT, and answers with the rows or with the error.                    *)

\* the list request in slot r: the SELECT answered err, or the rows
ListResponse(r, kind, op, err, rows) ==
    LET rq == [Receive(r, kind, <<>>, NoFile) EXCEPT
                  !.calls = <<Call(op, err)>>]
    IN  /\ Set(r, IF err # "" THEN Respond(rq, 500, err)
                  ELSE [Respond(rq, 200, "") EXCEPT !.tenants = rows,
                                                    !.count = Len(rows)])
        /\ UNCHANGED <<registry, stores, objects, clock, apiKey, started,
                       uuids>>

HandleListTenants(r, faulty) ==
    /\ reqs[r].pc \in Rest
    /\ \E pgErr \in Errs(faulty, "Failed to list tenants") :
          ListResponse(r, "list", "ListTenants", pgErr,
                       ListTenants(registry))

HandleListDeletedTenants(r, faulty) ==
    /\ reqs[r].pc \in Rest
    /\ \E pgErr \in Errs(faulty, "Failed to list deleted tenants") :
          ListResponse(r, "list_deleted", "ListDeletedTenants", pgErr,
                       ListDeletedTenants(registry))

---------------------------------------------------------------------------
(* Specifications *)

Init ==
    /\ registry = <<>>
    /\ stores = [t \in ValidNames |-> NoStore]
    /\ objects = {}
    /\ clock = 1
    /\ apiKey = "key"
    /\ started = [upload |-> 0, delete |-> 0, restore |-> 0]
    /\ uuids = 0
    /\ reqs = [r \in Slots |-> IdleReq]
    /\ prev = [t \in ValidNames |-> NoPrev]

\* one step of the request in slot r; results are the answers of the Gemini
\* API that are considered, faulty says whether infrastructure failures are
UploadStep(r, results, faulty) ==
    \/ UploadLookup(r, faulty) \/ UploadCreateDb(r, faulty)
    \/ UploadInsert(r, faulty) \/ UploadExtract(r, faulty)
    \/ UploadStore(r, faulty) \/ UploadSummarize(r, results)
    \/ UploadRecord(r, faulty)

Step(r, results, faulty) ==
    \/ UploadStep(r, results, faulty)
    \/ DeleteLookup(r, faulty) \/ DeleteMark(r, faulty)
    \/ DeleteFlip(r, faulty)
    \/ RestoreFlip(r, faulty) \/ RestoreUnmark(r, faulty)

\* a request arrives in slot r, for one of the given tenant names and, when
\* it is an upload, with one of the given files
Arrive(r, names, files) ==
    \/ \E t \in names, f \in files : HandleUpload(r, t, f)
    \/ \E t \in names : HandleDelete(r, t)
    \/ \E t \in names : HandleRestore(r, t)

\* no request is in flight
Quiet == \A r \in Slots : reqs[r].pc \in Rest

ApiDown == [err |-> "API request failed", text |-> <<>>]

\* Spec: requests that overlap freely, on healthy infrastructure
Next ==
    \/ /\ started.upload + started.delete + started.restore < MaxOverlapped
       /\ \E r \in Slots : Arrive(r, {NameAcme}, {FilePdf})
    \/ \E r \in Slots : Step(r, {ApiDown}, FALSE)

Spec == Init /\ [][Next]_vars

\* the steps of the request in slot r but the summarization
StepUnlessSummarize(r) ==
    \/ UploadLookup(r, FALSE) \/ UploadCreateDb(r, FALSE)
    \/ UploadInsert(r, FALSE) \/ UploadExtract(r, FALSE)
    \/ UploadStore(r, FALSE) \/ UploadRecord(r, FALSE)
    \/ DeleteLookup(r, FALSE) \/ DeleteMark(r, FALSE)
    \/ DeleteFlip(r, FALSE)
    \/ RestoreFlip(r, FALSE) \/ RestoreUnmark(r, FALSE)

\* gin serves every request in a goroutine of its own, so the handler in
\* slot r goes on whenever the call it waits for has returned: weak
\* fairness of its steps.  For the summarization it is written out, with
\* "the request is at the summarization" for ENABLED <<UploadSummarize>>,
\* which is the only guard of that step.
Fair(r) ==
    /\ WF_vars(StepUnlessSummarize(r))
    /\ \/ []<>(reqs[r].pc # "summarize")
       \/ []<><<UploadSummarize(r, {ApiDown})>>_vars

\* the requests that are considered for termination
MaxLive == 3

\* SpecLive: requests that overlap freely, on healthy infrastructure, where
\* no request in flight is left waiting for ever
NextLive ==
    \/ /\ started.upload + started.delete + started.restore < MaxLive
       /\ \E r \in Slots : Arrive(r, {NameAcme}, {FilePdf})
    \/ \E r \in Slots : Step(r, {ApiDown}, FALSE)

SpecLive == Init /\ [][NextLive]_vars /\ \A r \in Slots : Fair(r)

\* SpecSeq: one request at a time, with infrastructure failures and
\* requests that are rejected
NextSeq ==
    \/ Quiet /\ Arrive(1, {NameAcme, NameAb}, {FilePdf, FileEmpty})
    \/ Step(1, {ApiDown}, TRUE)

SpecSeq == Init /\ [][NextSeq]_vars

\* SpecUpload: uploads, one at a time, of every kind of file, with every
\* answer of the Gemini API, and with or without an API key
InitUpload ==
    /\ registry = <<>>
    /\ stores = [t \in ValidNames |-> NoStore]
    /\ objects = {}
    /\ clock = 1
    /\ apiKey \in {"", "key"}
    /\ started = [upload |-> 0, delete |-> 0, restore |-> 0]
    /\ uuids = 0
    /\ reqs = [r \in Slots |-> IdleReq]
    /\ prev = [t \in ValidNames |-> NoPrev]

NextUpload ==
    \/ Quiet /\ \E t \in {NameAcme, NameAb}, f \in Files : HandleUpload(1, t, f)
    \/ UploadStep(1, apiResults, TRUE)

SpecUpload == InitUpload /\ [][NextUpload]_vars

\* the requests for two tenants that are considered
MaxTwo == 4

\* SpecTwo: requests for two tenants, one request at a time, with
\* infrastructure failures
NextTwo ==
    \/ /\ Quiet
       /\ started.upload + started.delete + started.restore < MaxTwo
       /\ Arrive(1, {NameAcme, NameBeta}, {FilePdf})
    \/ Step(1, {ApiDown}, TRUE)

SpecTwo == Init /\ [][NextTwo]_vars

\* SpecLists: the requests of SpecTwo, and between them requests for the
\* list of the active and of the deleted tenants
NextLists ==
    \/ NextTwo
    \/ Quiet /\ HandleListTenants(1, TRUE)
    \/ Quiet /\ HandleListDeletedTenants(1, TRUE)

SpecLists == Init /\ [][NextLists]_vars

\* the file names and the sizes (multipart.FileHeader.Size, never negative)
\* of the files that are sent to ValidatePDF
FileNameSamples ==
    {<<"a", ".", "p", "d", "f">>, <<"a", ".", "P", "D", "F">>,
     <<"a", ".", "p", "D", "f">>, <<".", "p", "d", "f">>,
     <<"p", "d", "f">>, <<"a", "p", "d", "f">>, <<"a", ".", "p", "d">>,
     <<"a", ".", "t", "x", "t">>, <<"a", ".", "p", "d", "f", "x">>,
     <<"a", ".", "p", "d", "f", ".", "t", "x", "t">>, <<>>}

FileSizeSamples == {0, 1, MaxFileSize - 1, MaxFileSize, MaxFileSize + 1}

FileSamples ==
    {[filename |-> n, size |-> s, pdf |-> FilePdf.pdf] :
        n \in FileNameSamples, s \in FileSizeSamples} \cup {NoFile}

\* SpecFiles: uploads, one at a time, of the sample files, on healthy
\* infrastructure
NextFiles ==
    \/ Quiet /\ \E f \in FileSamples : HandleUpload(1, NameAcme, f)
    \/ UploadStep(1, {ApiDown}, FALSE)

SpecFiles == Init /\ [][NextFiles]_vars

---------------------------------------------------------------------------
(* DeleteTenant calls that overlap.  UpdateMany writes one document at a   *)
(* time, each write conditional on the filter, so the writes of two        *)
(* UpdateMany interleave: the marking of a delete is a number of steps,    *)
(* each marking some of the Documents that are still live, and it is over  *)
(* once the scan has seen every Document, when none is live any more.      *)

\* DeleteTenant step 2, a part: UpdateMany marks some of the live Documents
DeleteMarkPart(r) ==
    /\ reqs[r].pc = "del_mark"
    /\ \E S \in SUBSET LiveDocs(stores[reqs[r].name].docs) :
          /\ S # {}
          /\ stores' = [stores EXCEPT ![reqs[r].name].docs =
                           MarkDeleted(@, S, clock)]
          /\ Set(r, [reqs[r] EXCEPT !.count = @ + Cardinality(S)])
    /\ clock' = Tick(TRUE)
    /\ UNCHANGED <<registry, objects, apiKey, started, uuids>>

\* DeleteTenant step 2, the end: UpdateMany returns its ModifiedCount
DeleteMarkEnd(r) ==
    /\ reqs[r].pc = "del_mark"
    /\ LiveDocs(stores[reqs[r].name].docs) = {}
    /\ Set(r, [reqs[r] EXCEPT
                  !.calls = Append(@, Call("SoftDeleteAllDocuments", "")),
                  !.pc = "del_flip"])
    /\ UNCHANGED <<registry, stores, objects, clock, apiKey, started, uuids>>

\* no upload is in flight
NoUpload == \A r \in Slots : reqs[r].kind = "upload" => reqs[r].pc \in Rest

\* SpecDeletes: uploads for a tenant, one at a time; then DeleteTenant calls
\* for it that overlap, one in each slot
NextDeletes ==
    \/ Quiet /\ started.delete = 0 /\ HandleUpload(1, NameAcme, FilePdf)
    \/ UploadStep(1, {ApiDown}, FALSE)
    \/ \E r \in Slots :
          /\ NoUpload /\ registry # <<>> /\ reqs[r].kind # "delete"
          /\ HandleDelete(r, NameAcme)
    \/ \E r \in Slots :
          \/ DeleteLookup(r, FALSE)
          \/ DeleteMarkPart(r) \/ DeleteMarkEnd(r)
          \/ DeleteFlip(r, FALSE)

SpecDeletes == Init /\ [][NextDeletes]_vars

\* the name made of n times the character ch
Rep(ch, n) == [i \in 1..n |-> ch]

\* tenant names around the limits of ValidateTenantName: every length from
\* 0 to 4 and from 49 to 52 of one character, allowed or not, and names
\* with one character that is not allowed at the start, inside and at the end
NameSamples ==
    {Rep(ch, n) : ch \in {"a", "Z", "7", "_", "-", " "},
                  n \in {0, 1, 2, 3, 4, 49, 50, 51, 52}}
    \cup {<<"a", "_", "1", "B">>, <<"a", "b", ".">>, <<"/", "a", "b">>,
          <<"a", "b", "-", "c">>, <<"a", "{", "b">>, <<"a", "@", "b">>,
          <<"a", "[", "b">>, <<"a", ":", "b">>}
    \cup {Rep("a", 49) \o <<"-">>, <<"-">> \o Rep("a", 49),
          Rep("a", 25) \o <<" ">> \o Rep("a", 24)}

\* SpecNames: deletes and restores, one at a time, for the sample names
NextNames ==
    \/ Quiet /\ \E t \in NameSamples : HandleDelete(1, t)
    \/ Quiet /\ \E t \in NameSamples : HandleRestore(1, t)
    \/ DeleteLookup(1, FALSE)
    \/ RestoreFlip(1, FALSE)

SpecNames == Init /\ [][NextNames]_vars

\* a readable PDF with the given text
FileOf(text) ==
    [filename |-> <<"l", ".", "p", "d", "f">>, size |-> 4096, pdf |-> text]

\* PDFs around the limits of generateFallbackSummary: texts shorter and
\* longer than 500 characters, without a period, with the last period of
\* the first 500 characters at index 100, 101 and 300, with the only period
\* after the first 500 characters, and with white space at the cut
LongFiles ==
    {FilePdf,
     FileOf(Rep("x", 499)), FileOf(Rep("x", 500)), FileOf(Rep("x", 600)),
     FileOf(Rep("x", 100) \o <<".">> \o Rep("y", 50)),
     FileOf(Rep("x", 101) \o <<".">> \o Rep("y", 50)),
     FileOf(Rep("x", 300) \o <<".">> \o Rep("y", 299)),
     FileOf(Rep("x", 550) \o <<".">> \o Rep("y", 49)),
     FileOf(Rep("x", 200) \o <<".", " ">> \o Rep("y", 400)),
     FileOf(Rep("x", 498) \o <<" ", " ">> \o Rep("y", 100))}

\* the uploads of long PDFs that are considered
MaxSummaries == 1

\* SpecSummary: uploads, one at a time, of the long PDFs, with the Gemini
\* API down or without an API key
NextSummary ==
    \/ /\ Quiet /\ started.upload < MaxSummaries
       /\ \E f \in LongFiles : HandleUpload(1, NameAcme, f)
    \/ UploadStep(1, {ApiDown}, FALSE)

SpecSummary == InitUpload /\ [][NextSummary]_vars

---------------------------------------------------------------------------
(* Properties *)

\* the calls the request rq made to the operation op
CallsOf(rq, op) == {i \in DOMAIN rq.calls : rq.calls[i].op = op}

\* the errors of a call that the infrastructure did not serve
InfraErrors ==
    {"connection refused", "server selection timeout",
     "unable to create temp file", "unable to upload file",
     "unable to insert document", "unable to soft delete documents",
     "unable to restore documents"}

\* every call the request made was served
Healthy(rq) == \A i \in DOMAIN rq.calls : rq.calls[i].err \notin InfraErrors

\* the Registry rows that carry the name, deleted or not
RowsOf(tenantName) ==
    {i \in DOMAIN registry : registry[i].tenant_name = tenantName}

\* the Registry holds an active row / a soft-deleted row for the name
RowActive(tenantName) ==
    \E i \in RowsOf(tenantName) :
        /\ ~registry[i].is_deleted
        /\ registry[i].status = "active"
        /\ registry[i].deleted_at = Null
RowDeleted(tenantName) ==
    \E i \in RowsOf(tenantName) :
        registry[i].is_deleted /\ registry[i].status = "deleted"

\* the ids of the non-deleted Documents of the tenant
LiveIds(tenantName) == DocIds(tenantName, LiveDocs(stores[tenantName].docs))

\* GetOrCreateTenant of the upload rq has returned: a tenant, or an error
Returned(rq) ==
    /\ rq.kind = "upload"
    /\ \/ rq.tenant # NoTenant
       \/ rq.pc = "done" /\ rq.at \in {"lookup", "createdb", "insert"}

\* C1, as the specification states it: once a row exists for the name,
\* every later GetOrCreateTenant that the infrastructure serves returns that
\* row and creates nothing.
C1_Original ==
    \A r \in Slots :
        LET rq == reqs[r]
        IN  (Returned(rq) /\ rq.rows0 # {} /\ Healthy(rq)) =>
                /\ \E row \in rq.rows0 : rq.tenant.id = row[1]
                /\ CallsOf(rq, "CreateTenant") = {}
                /\ Cardinality(RowsOf(rq.name)) = 1

\* C1, amended: the first GetOrCreateTenant that succeeds for a name without
\* a row has created exactly one row and one store; a later call made while
\* the row is not soft-deleted returns that row and creates nothing; a call
\* made while the row is soft-deleted fails; no call leaves a second row for
\* the name.
C1_GetOrCreateTenant ==
    /\ \A t \in ValidNames : Cardinality(RowsOf(t)) <= 1
    /\ \A r \in Slots :
        LET rq == reqs[r]
        IN  Returned(rq) =>
              /\ (rq.rows0 = {} /\ rq.tenant # NoTenant) =>
                    /\ CallsOf(rq, "CreateTenant") # {}
                    /\ \E i \in RowsOf(rq.name) : registry[i] = rq.tenant
                    /\ Cardinality(RowsOf(rq.name)) = 1
                    /\ stores[rq.name].exists
              /\ \A row \in rq.rows0 :
                    IF row[2]
                    THEN rq.tenant = NoTenant /\ rq.status = 500
                    ELSE Healthy(rq) =>
                           /\ rq.tenant.id = row[1]
                           /\ CallsOf(rq, "CreateTenantDatabase") = {}
                           /\ CallsOf(rq, "CreateTenant") = {}

\* an upload for a tenant whose row was active ended with that row
C1_Witness ==
    \E r \in Slots :
        LET rq == reqs[r]
        IN  /\ rq.kind = "upload" /\ rq.pc = "done" /\ rq.status = 200
            /\ \E row \in rq.rows0 : ~row[2] /\ rq.tenant.id = row[1]

\* the upload rq saw no row for its name and went on to insert one
Raced(rq) ==
    rq.kind = "upload" /\ rq.rows0 = {} /\ CallsOf(rq, "CreateTenant") # {}

\* the error of the insert the upload rq made
InsertErr(rq) == rq.calls[CHOOSE i \in CallsOf(rq, "CreateTenant") : TRUE].err

\* C2: however GetOrCreateTenant calls for one new name overlap, the
\* Registry never holds two rows for the name, and of two racing inserts
\* exactly one succeeds and the other fails with the uniqueness violation.
C2_OneRowPerName ==
    /\ \A t \in ValidNames : Cardinality(RowsOf(t)) <= 1
    /\ \A r1, r2 \in Slots :
        (/\ r1 # r2
         /\ Raced(reqs[r1]) /\ Raced(reqs[r2])
         /\ reqs[r1].name = reqs[r2].name) =>
            {InsertErr(reqs[r1]), InsertErr(reqs[r2])} = {"", "unique_violation"}

\* two uploads raced to insert the row of the same new name
C2_Witness ==
    \E r1, r2 \in Slots :
        /\ r1 # r2
        /\ Raced(reqs[r1]) /\ Raced(reqs[r2])
        /\ reqs[r1].name = reqs[r2].name
        /\ InsertErr(reqs[r1]) = "" /\ InsertErr(reqs[r2]) = "unique_violation"

\* the operations of the Registry, the Document Stores and the Object Store
StoreOps ==
    {"GetTenantByName", "CreateTenantDatabase", "CreateTenant", "UploadFile",
     "InsertDocument"}

\* the operations HandleUpload calls before it records the Document
OpsBeforeRecorded ==
    {"GetTenantByName", "CreateTenantDatabase", "CreateTenant", "ExtractText",
     "UploadFile"}

\* the calls of rq to the operations ops that failed (pgx.ErrNoRows is the
\* answer of a lookup that found nothing, not a failure)
FailedCalls(rq, ops) ==
    {i \in DOMAIN rq.calls :
        rq.calls[i].op \in ops /\ rq.calls[i].err \notin {"", "ErrNoRows"}}

\* the Documents of the tenant of rq that carry its storage path
DocsOf(rq) ==
    IF rq.name \in ValidNames
    THEN {i \in DOMAIN stores[rq.name].docs :
            stores[rq.name].docs[i].storage_path = rq.path}
    ELSE {}

\* C3, as the specification states it: an upload that passed validation and
\* none of whose Registry, Document Store and Object Store calls failed ends
\* Completed, with exactly one Document inserted for it.
C3_Original ==
    \A r \in Slots :
        LET rq == reqs[r]
        IN  (/\ rq.kind = "upload" /\ rq.pc = "done" /\ rq.at # "idle"
             /\ FailedCalls(rq, StoreOps) = {}) =>
                /\ rq.status = 200
                /\ Cardinality(DocsOf(rq)) = 1

\* the upload rq was rejected at validation, or a call it made before the
\* Document is recorded failed
FailedBeforeRecorded(rq) ==
    /\ rq.kind = "upload"
    /\ \/ rq.pc = "done" /\ rq.at = "idle"
       \/ FailedCalls(rq, OpsBeforeRecorded) # {}

\* C4: an upload that fails at a step before Recorded ends with a failure
\* response, never calls InsertDocument, and no Document of any store is
\* its own.
C4_NoDocumentBeforeRecorded ==
    \A r \in Slots :
        LET rq == reqs[r]
        IN  FailedBeforeRecorded(rq) =>
                /\ rq.pc = "done"
                /\ rq.status \in {400, 500}
                /\ CallsOf(rq, "InsertDocument") = {}
                /\ rq.docId = 0
                /\ DocsOf(rq) = {}

\* an upload ended because the object-store put failed, with Documents of
\* earlier uploads in the store
C4_Witness ==
    \E r \in Slots :
        LET rq == reqs[r]
        IN  /\ rq.kind = "upload" /\ rq.pc = "done" /\ rq.at = "store"
            /\ rq.status = 500
            /\ stores[rq.name].docs # <<>>

\* C5, as the specification states it: the text-extraction step never ends
\* an upload; it leaves a non-empty text and the upload goes on to Stored.
C5_Original ==
    \A r \in Slots :
        LET rq == reqs[r]
        IN  (rq.kind = "upload" /\ CallsOf(rq, "ExtractText") # {}) =>
                /\ rq.at # "extract"
                /\ rq.text # <<>>

\* C6: the summarization step never ends an upload and never returns an
\* error; when the Gemini call fails (or no API key is set) the summary is
\* generateFallbackSummary of the text, and a Document recorded after it
\* carries that summary.
C6_SummaryFallback ==
    \A r \in Slots :
        LET rq == reqs[r]
        IN  (rq.kind = "upload" /\ CallsOf(rq, "GenerateSummary") # {}) =>
                /\ rq.at # "summarize"
                /\ rq.pc \in {"record", "done"}
                /\ \A i \in CallsOf(rq, "GenerateSummary") : rq.calls[i].err = ""
                /\ (rq.api.err # "" \/ apiKey = "") =>
                      rq.summary = generateFallbackSummary(rq.text)
                /\ (rq.pc = "done" /\ rq.status = 200) =>
                      stores[rq.name].docs[rq.docId].summary = rq.summary

\* an upload whose Gemini call failed was recorded
C6_Witness ==
    \E r \in Slots :
        LET rq == reqs[r]
        IN  /\ rq.kind = "upload" /\ rq.pc = "done" /\ rq.status = 200
            /\ apiKey # "" /\ rq.api.err # ""
            /\ stores[rq.name].docs[rq.docId].summary =
                   generateFallbackSummary(rq.text)

\* the restore rq succeeded, right after a DeleteTenant that succeeded
RestoredAfterDelete(rq) ==
    /\ rq.kind = "restore" /\ rq.pc = "done" /\ rq.status = 200
    /\ rq.after.kind = "delete" /\ rq.after.status = 200

\* C7, as the specification states it: after DeleteTenant and then
\* RestoreTenant the non-deleted Documents are those that were non-deleted
\* before the delete, and the row is active.
C7_Original ==
    \A r \in Slots :
        LET rq == reqs[r]
        IN  RestoredAfterDelete(rq) =>
                /\ LiveIds(rq.name) = rq.after.live0
                /\ RowActive(rq.name)

\* C7, amended: after DeleteTenant and then RestoreTenant the row is active
\* and every Document of the store is non-deleted: the Documents that were
\* non-deleted before the delete, and with them those an earlier, interrupted
\* DeleteTenant had marked.
C7_RoundTrip ==
    \A r \in Slots :
        LET rq == reqs[r]
            docs == stores[rq.name].docs
        IN  RestoredAfterDelete(rq) =>
                /\ RowActive(rq.name)
                /\ LiveDocs(docs) = DOMAIN docs
                /\ rq.after.live0 \subseteq LiveIds(rq.name)
                /\ Cardinality(rq.after.live0) = Len(docs) =>
                      LiveIds(rq.name) = rq.after.live0

\* a tenant with Documents was deleted and restored
C7_Witness ==
    \E r \in Slots :
        LET rq == reqs[r]
        IN  /\ RestoredAfterDelete(rq)
            /\ rq.after.live0 # {}
            /\ LiveIds(rq.name) = rq.after.live0

\* the row of the tenant of rq was active when rq arrived
ActiveAtArrival(rq) == \E row \in rq.rows0 : ~row[2]

\* C8: a DeleteTenant on an active tenant with N non-deleted Documents
\* succeeds and reports N; a DeleteTenant right after a successful one fails
\* and reports 0.
C8_DeleteCounts ==
    \A r \in Slots :
        LET rq == reqs[r]
        IN  (rq.kind = "delete" /\ rq.pc = "done") =>
                /\ (ActiveAtArrival(rq) /\ Healthy(rq)) => rq.status = 200
                /\ rq.status = 200 => rq.count = Cardinality(rq.live0)
                /\ (rq.after.kind = "delete" /\ rq.after.status = 200) =>
                      /\ rq.status = 500
                      /\ rq.count = 0
                      /\ Healthy(rq) => rq.error = "tenant not found"

\* a second DeleteTenant followed one that had marked Documents
C8_Witness ==
    \E r \in Slots :
        LET rq == reqs[r]
        IN  /\ rq.kind = "delete" /\ rq.pc = "done"
            /\ rq.after.kind = "delete" /\ rq.after.status = 200
            /\ rq.after.live0 # {}
            /\ rq.status = 500 /\ rq.count = 0

\* C9, as the specification states it: a RestoreTenant that stopped after
\* the row flip, with Documents still marked deleted, is completed by a
\* second RestoreTenant: it succeeds and leaves the row active and every
\* Document non-deleted.
C9_Original ==
    \A r \in Slots :
        LET rq == reqs[r]
            docs == stores[rq.name].docs
        IN  (/\ rq.kind = "restore" /\ rq.pc = "done"
             /\ rq.after.kind = "restore" /\ rq.after.at = "res_unmark"
             /\ Cardinality(rq.live0) < Len(docs)
             /\ Healthy(rq)) =>
                /\ rq.status = 200
                /\ RowActive(rq.name)
                /\ LiveDocs(docs) = DOMAIN docs

\* the delete rq followed a DeleteTenant that stopped in or after the
\* marking of the Documents, before the row flip was done
RetriedDelete(rq) ==
    /\ rq.kind = "delete" /\ rq.pc = "done"
    /\ rq.after.kind = "delete"
    /\ rq.after.at \in {"del_mark", "del_flip"}

\* C10: a DeleteTenant that stopped after marking Documents and before the
\* row flip is completed by a second DeleteTenant: it succeeds, reports the
\* Documents that were left to mark, and leaves every Document marked and
\* the row deleted.
C10_DeleteRetry ==
    \A r \in Slots :
        LET rq == reqs[r]
            docs == stores[rq.name].docs
        IN  (RetriedDelete(rq) /\ Healthy(rq)) =>
                /\ rq.status = 200
                /\ rq.count = Cardinality(rq.live0)
                /\ rq.after.at = "del_flip" => rq.count = 0
                /\ DeletedDocs(docs) = DOMAIN docs
                /\ RowDeleted(rq.name)
                /\ ~RowActive(rq.name)

\* a DeleteTenant whose row flip had failed was run again and succeeded
C10_Witness ==
    \E r \in Slots :
        LET rq == reqs[r]
        IN  /\ RetriedDelete(rq) /\ rq.after.at = "del_flip"
            /\ rq.after.live0 # {}
            /\ rq.status = 200

\* C11: with one request at a time, whatever call of a DeleteTenant fails,
\* no tenant row is deleted while a Document of the tenant is non-deleted; a
\* DeleteTenant that flipped the row had marked every Document, and one
\* whose marking failed did not flip the row.
C11_MarkedBeforeFlip ==
    /\ \A t \in ValidNames :
          RowDeleted(t) => LiveDocs(stores[t].docs) = {}
    /\ \A r \in Slots :
        LET rq == reqs[r]
        IN  (rq.kind = "delete" /\ rq.name \in ValidNames) =>
                /\ rq.flipped => LiveDocs(stores[rq.name].docs) = {}
                /\ (rq.pc = "done" /\ rq.at = "del_mark") =>
                      /\ ~rq.flipped
                      /\ CallsOf(rq, "DeleteTenant") = {}
                      /\ RowActive(rq.name)

\* a DeleteTenant stopped with one Document marked and another one not
C11_Witness ==
    \E r \in Slots :
        LET rq == reqs[r]
        IN  /\ rq.kind = "delete" /\ rq.pc = "done" /\ rq.at = "del_mark"
            /\ LiveDocs(stores[rq.name].docs) # {}
            /\ DeletedDocs(stores[rq.name].docs) # {}
            /\ RowActive(rq.name)

\* C12: every Registry row names a tenant whose Document Store exists, and
\* a GetOrCreateTenant whose provisioning failed made no insert and left
\* the Registry without a row for the name it did not find.
C12_RowHasStore ==
    /\ \A i \in DOMAIN registry : stores[registry[i].tenant_name].exists
    /\ \A r \in Slots :
        LET rq == reqs[r]
        IN  (rq.kind = "upload" /\ rq.pc = "done" /\ rq.at = "createdb") =>
                /\ CallsOf(rq, "CreateTenant") = {}
                /\ rq.tenant = NoTenant
                /\ rq.rows0 = {} => RowsOf(rq.name) = {}

\* the provisioning of a new tenant failed and no row was written
C12_Witness ==
    \E r \in Slots :
        LET rq == reqs[r]
        IN  /\ rq.kind = "upload" /\ rq.pc = "done" /\ rq.at = "createdb"
            /\ rq.rows0 = {} /\ RowsOf(rq.name) = {}
            /\ ~stores[rq.name].exists

\* C13: every Tenant row has is_deleted exactly when its status is
\* "deleted", and a deleted_at exactly when is_deleted, whatever creates,
\* deletes and restores were run and wherever they failed.
C13_TenantRowInvariant ==
    \A i \in DOMAIN registry :
        /\ registry[i].is_deleted <=> registry[i].status = "deleted"
        /\ registry[i].is_deleted <=> registry[i].deleted_at # Null
        /\ registry[i].status \in {"active", "deleted"}

\* a tenant was created, deleted and restored
C13_Witness ==
    \E r \in Slots :
        LET rq == reqs[r]
        IN  /\ rq.kind = "restore" /\ rq.pc = "done" /\ rq.status = 200
            /\ \E i \in RowsOf(rq.name) :
                  ~registry[i].is_deleted /\ registry[i].deleted_at = Null

\* C14: every Document has a deleted_at exactly when is_deleted is true,
\* whatever uploads, tenant deletes and restores were run and wherever they
\* failed.
C14_DocumentInvariant ==
    \A t \in ValidNames :
        \A i \in DOMAIN stores[t].docs :
            stores[t].docs[i].is_deleted <=> stores[t].docs[i].deleted_at # Null

\* the Documents of a tenant were marked deleted and unmarked again
C14_Witness ==
    \E r \in Slots :
        LET rq == reqs[r]
        IN  /\ rq.kind = "restore" /\ rq.pc = "done" /\ rq.status = 200
            /\ rq.count > 0
            /\ \A i \in DOMAIN stores[rq.name].docs :
                  stores[rq.name].docs[i].deleted_at = Null

\* the request rq carries a tenant name that fails ValidateTenantName or,
\* when it is an upload, no file or a file that fails ValidatePDF
Invalid(rq) ==
    /\ rq.kind \in {"upload", "delete", "restore"}
    /\ \/ ValidateTenantName(rq.name) # ""
       \/ rq.kind = "upload" /\ (rq.file = NoFile \/ ValidatePDF(rq.file) # "")

\* C15: a step that takes in a request with an invalid tenant name, or an
\* upload with an invalid file, ends it with status 400 without a call to
\* any store, and leaves the Registry, the Document Stores and the Object
\* Store unchanged.
C15_InvalidInputNoEffect ==
    [][\A r \in Slots :
          (reqs'[r] # reqs[r] /\ Invalid(reqs'[r])) =>
              /\ reqs'[r].pc = "done"
              /\ reqs'[r].status = 400
              /\ reqs'[r].calls = <<>>
              /\ UNCHANGED <<registry, stores, objects>>]_vars

\* a request with an invalid name was rejected while the stores held a
\* tenant, a Document and an object
C15_Witness ==
    \E r \in Slots :
        /\ Invalid(reqs[r]) /\ reqs[r].kind = "delete"
        /\ reqs[r].status = 400
        /\ registry # <<>> /\ objects # {}
        /\ \E t \in ValidNames : stores[t].docs # <<>>

\* the name has 3 to 50 characters, each of them in [A-Za-z0-9_]
WellFormed(name) ==
    /\ Len(name) >= 3 /\ Len(name) <= 50
    /\ \A i \in 1..Len(name) :
          \/ name[i] \in Lower \/ name[i] \in Upper \/ name[i] \in Digit
          \/ name[i] = "_"

\* C16: ValidateTenantName accepts the name of a request exactly when the
\* name has 3 to 50 characters, all of them in [A-Za-z0-9_]; the handler
\* goes on with the request exactly then, and answers 400 otherwise.
C16_ValidateTenantName ==
    \A r \in Slots :
        LET rq == reqs[r]
        IN  rq.kind # "none" =>
                /\ ValidateTenantName(rq.name) = "" <=> WellFormed(rq.name)
                /\ (rq.pc = "done" /\ rq.at = "idle") <=> ~WellFormed(rq.name)
                /\ ~WellFormed(rq.name) => rq.status = 400

\* a name of 50 allowed characters passed the validation
C16_Witness ==
    \E r \in Slots :
        LET rq == reqs[r]
        IN  /\ rq.kind = "delete" /\ Len(rq.name) = 50
            /\ rq.pc = "done" /\ rq.at = "del_lookup"

\* s is a prefix of t
IsPrefix(s, t) == Len(s) <= Len(t) /\ \A i \in 1..Len(s) : s[i] = t[i]

\* the upload rq was summarized by the fallback
FellBack(rq) ==
    /\ rq.kind = "upload" /\ CallsOf(rq, "GenerateSummary") # {}
    /\ (rq.api.err # "" \/ apiKey = "")

\* the first FallbackMaxLen characters of the text
Window(text) ==
    Slice(text, 1, IF Len(text) < FallbackMaxLen THEN Len(text)
                   ELSE FallbackMaxLen)

InList(list, tenantName) ==
    \E k \in DOMAIN list : list[k].tenant_name = tenantName

\* C18: every Registry row is in exactly one of ListTenants and
\* ListDeletedTenants; after a successful DeleteTenant the tenant is in the
\* deleted list and not in the active one, after a successful RestoreTenant
\* in the active list and not in the deleted one.
C18_ListsPartition ==
    LET active == ListTenants(registry)
        deleted == ListDeletedTenants(registry)
    IN  /\ Len(active) + Len(deleted) = Len(registry)
        /\ \A i \in DOMAIN registry :
              InList(active, registry[i].tenant_name)
                  # InList(deleted, registry[i].tenant_name)
        /\ \A r \in Slots :
            LET rq == reqs[r]
            IN  (rq.pc = "done" /\ rq.status = 200) =>
                  /\ rq.kind = "delete" =>
                        InList(deleted, rq.name) /\ ~InList(active, rq.name)
                  /\ rq.kind = "restore" =>
                        InList(active, rq.name) /\ ~InList(deleted, rq.name)

\* a tenant that was deleted and restored is listed as active
C18_Witness ==
    \E r \in Slots :
        LET rq == reqs[r]
        IN  /\ rq.kind = "restore" /\ rq.pc = "done" /\ rq.status = 200
            /\ rq.after.kind = "delete"
            /\ InList(ListTenants(registry), rq.name)
            /\ ListDeletedTenants(registry) = <<>>

\* the attempts the README promises for a retryable error
RetryAttempts == 3

\* the errors of callGeminiAPI the README calls retryable: a failed or
\* timed-out request, and a status that is not 200 (429, 500-504)
Retryable == {"API request failed", "status"}

\* C19, as the README states it: when the Gemini call fails with a
\* retryable error, it is made again, three times in all, before the
\* fallback summary is used.
C19_Original ==
    \A r \in Slots :
        LET rq == reqs[r]
        IN  (/\ rq.kind = "upload" /\ CallsOf(rq, "GenerateSummary") # {}
             /\ apiKey # "" /\ rq.api.err \in Retryable) =>
                /\ rq.summary = generateFallbackSummary(rq.text)
                /\ rq.attempts = RetryAttempts

\* the upload rq lost the race for a new name: it saw no row and its insert
\* was refused
LostRace(rq) == Raced(rq) /\ InsertErr(rq) = "unique_violation"

\* C20: an upload whose insert of a new tenant lost the uniqueness conflict
\* ends with status 500 right there: it makes no second lookup and no later
\* call, and records no Document.
C20_LoserFailsHard ==
    \A r \in Slots :
        LET rq == reqs[r]
        IN  LostRace(rq) =>
                /\ rq.pc = "done" /\ rq.status = 500 /\ rq.at = "insert"
                /\ rq.error = "Failed to get/create tenant"
                /\ Cardinality(CallsOf(rq, "GetTenantByName")) = 1
                /\ rq.calls[Len(rq.calls)].op = "CreateTenant"
                /\ rq.tenant = NoTenant
                /\ rq.docId = 0 /\ DocsOf(rq) = {}

\* of two uploads that raced for a new name, the one whose insert was
\* refused failed and the other one recorded its Document
C20_Witness ==
    \E r1, r2 \in Slots :
        /\ LostRace(reqs[r1]) /\ reqs[r1].status = 500
        /\ Raced(reqs[r2]) /\ InsertErr(reqs[r2]) = ""
        /\ reqs[r2].pc = "done" /\ reqs[r2].status = 200
        /\ Cardinality(DocsOf(reqs[r2])) = 1
        /\ Len(stores[reqs[r2].name].docs) = 1

\* the operation HandleUpload calls after the call c returned, "none" when
\* the request ends with c
Follows(c) ==
    IF c.op = "GetTenantByName"
    THEN IF c.err = "" THEN "ExtractText"
         ELSE IF c.err = "ErrNoRows" THEN "CreateTenantDatabase" ELSE "none"
    ELSE IF c.err # "" /\ c.op # "GenerateSummary" THEN "none"
    ELSE CASE c.op = "CreateTenantDatabase" -> "CreateTenant"
           [] c.op = "CreateTenant" -> "ExtractText"
           [] c.op = "ExtractText" -> "UploadFile"
           [] c.op = "UploadFile" -> "GenerateSummary"
           [] c.op = "GenerateSummary" -> "InsertDocument"
           [] OTHER -> "none"

\* the position of a request that is about to call the operation op
PcOf(op) ==
    CASE op = "GetTenantByName" -> "lookup"
      [] op = "CreateTenantDatabase" -> "createdb"
      [] op = "CreateTenant" -> "insert"
      [] op = "ExtractText" -> "extract"
      [] op = "UploadFile" -> "store"
      [] op = "GenerateSummary" -> "summarize"
      [] op = "InsertDocument" -> "record"
      [] OTHER -> "done"

\* the keys of the blobs in the Object Store
ObjectKeys == {o.key : o \in objects}

\* the calls of the upload rq are in the order of the steps: validation
\* first, each call made only after the call before it returned what lets
\* the request go on, and the position of the request is the call after the
\* last one
InStepOrder(rq) ==
    LET n == Len(rq.calls)
    IN  /\ rq.pc # "idle"
        /\ rq.pc # "done" \/ rq.at # "idle" =>
              /\ rq.file # NoFile
              /\ ValidateTenantName(rq.name) = ""
              /\ ValidatePDF(rq.file) = ""
        /\ IF n = 0
           THEN rq.pc = "lookup" \/ (rq.pc = "done" /\ rq.at = "idle")
           ELSE /\ rq.calls[1].op = "GetTenantByName"
                /\ \A i \in 1..(n - 1) : rq.calls[i + 1].op = Follows(rq.calls[i])
                /\ rq.pc = PcOf(Follows(rq.calls[n]))
        /\ \A i \in CallsOf(rq, "InsertDocument") :
              /\ i = n
              /\ \E j \in CallsOf(rq, "UploadFile") :
                    j < i /\ rq.calls[j].err = "" /\ rq.path \in ObjectKeys
        /\ rq.status = 200 =>
              /\ n > 0 /\ rq.calls[n] = Call("InsertDocument", "")
              /\ Cardinality(DocsOf(rq)) = 1

\* every change of the Registry, the Document Stores and the Object Store
\* is made by an upload at the step that owns it, and the insert of the
\* Document ends the request
MutatesInStepOrder ==
    /\ registry' # registry =>
          \E r \in Slots : reqs[r].pc = "insert" /\ reqs'[r].pc = "extract"
    /\ (\E t \in ValidNames : stores'[t].exists # stores[t].exists) =>
          \E r \in Slots : reqs[r].pc = "createdb"
    /\ objects' # objects =>
          \E r \in Slots : reqs[r].pc = "store" /\ reqs'[r].pc = "summarize"
    /\ (\E t \in ValidNames : stores'[t].docs # stores[t].docs) =>
          \E r \in Slots :
              /\ reqs[r].pc = "record" /\ reqs'[r].pc = "done"
              /\ reqs[r].path \in ObjectKeys

\* C21: within one upload the steps happen in the order Validated,
\* TenantReady, TextExtracted, Stored, Summarized, Recorded, Completed: a
\* step starts only after the one before it finished, the object-store put
\* precedes the Document insert, and the Document insert is the last store
\* mutation of the request.
C21_StepOrder ==
    /\ [](\A r \in Slots : reqs[r].kind = "upload" => InStepOrder(reqs[r]))
    /\ [][MutatesInStepOrder]_vars

\* an upload for a new tenant went through every step and ended Completed
C21_Witness ==
    \E r \in Slots :
        LET rq == reqs[r]
        IN  /\ rq.kind = "upload" /\ rq.status = 200
            /\ [i \in DOMAIN rq.calls |-> rq.calls[i].op] =
                  <<"GetTenantByName", "CreateTenantDatabase", "CreateTenant",
                    "ExtractText", "UploadFile", "GenerateSummary",
                    "InsertDocument">>

\* this step unmarks a Document of the tenant
Unmarks(tenantName) ==
    \E i \in DOMAIN stores[tenantName].docs :
        /\ stores[tenantName].docs[i].is_deleted
        /\ ~stores'[tenantName].docs[i].is_deleted

\* the restore rq called RestoreAllDocuments only after the Registry had
\* flipped the row
FlippedFirst(rq) ==
    \A i \in CallsOf(rq, "RestoreAllDocuments") :
        /\ i = 2
        /\ rq.calls[1] = Call("RestoreTenant", "")
        /\ rq.flipped

\* a step that unmarks a Document is the second step of a restore that has
\* flipped the row, and the row is active when it is taken
UnmarksAfterFlip ==
    \A t \in ValidNames :
        Unmarks(t) =>
            /\ RowActive(t) /\ ~RowDeleted(t)
            /\ \E r \in Slots :
                  /\ reqs[r].kind = "restore" /\ reqs[r].name = t
                  /\ reqs[r].pc = "res_unmark" /\ reqs[r].flipped

\* C22: RestoreTenant flips the tenant row to active before it unmarks any
\* Document: RestoreAllDocuments is called only after the flip succeeded,
\* and no step of a restore unmarks a Document while the row is deleted.
\* (That the tenant is active while its Documents are still marked deleted
\* during a restore is the state C22_Witness describes.)
C22_FlipBeforeUnmark ==
    /\ [](\A r \in Slots : reqs[r].kind = "restore" => FlippedFirst(reqs[r]))
    /\ [][UnmarksAfterFlip]_vars

\* a restore is in flight, the tenant is listed as active and a Document of
\* it is still marked deleted
C22_Witness ==
    \E r \in Slots :
        LET rq == reqs[r]
        IN  /\ rq.kind = "restore" /\ rq.pc = "res_unmark"
            /\ InList(ListTenants(registry), rq.name)
            /\ RowActive(rq.name)
            /\ DeletedDocs(stores[rq.name].docs) # {}

\* the restore in slot r is about to ask the Registry to flip a row, and the
\* Registry holds no soft-deleted row for its name (no row at all, or an
\* active one)
RestoresUndeleted(r) ==
    /\ reqs[r].kind = "restore" /\ reqs[r].pc = "res_flip"
    /\ RowsWhere(registry, reqs[r].name, TRUE) = {}

\* C23: RestoreTenant on a tenant that is absent from the Registry or is not
\* soft-deleted fails and changes nothing: the request ends with a failure
\* after its first call, no Registry row is modified and no Document is
\* unmarked.
C23_RestoreUndeletedFails ==
    [][\A r \in Slots :
          (RestoresUndeleted(r) /\ reqs'[r] # reqs[r]) =>
              /\ reqs'[r].pc = "done"
              /\ reqs'[r].status = 500
              /\ reqs'[r].error = "failed to restore tenant"
              /\ ~reqs'[r].flipped
              /\ Len(reqs'[r].calls) = 1
              /\ reqs'[r].calls[1].op = "RestoreTenant"
              /\ reqs'[r].calls[1].err
                    \in {"not found or not deleted", "connection refused"}
              /\ UNCHANGED <<registry, stores, objects>>]_vars

\* a restore of an active tenant failed while Documents of the tenant were
\* marked deleted (by a delete that failed at the flip of the row), and they
\* still are
C23_Witness ==
    \E r \in Slots :
        LET rq == reqs[r]
        IN  /\ rq.kind = "restore" /\ rq.pc = "done" /\ rq.status = 500
            /\ rq.calls = <<Call("RestoreTenant", "not found or not deleted")>>
            /\ \E row \in rq.rows0 : ~row[2]
            /\ RowActive(rq.name)
            /\ DeletedDocs(stores[rq.name].docs) # {}

\* the delete in slot r is about to look its tenant up, and the Registry
\* holds no active row for its name (no row at all, or a soft-deleted one)
DeletesInactive(r) ==
    /\ reqs[r].kind = "delete" /\ reqs[r].pc = "del_lookup"
    /\ RowsWhere(registry, reqs[r].name, FALSE) = {}

\* C24: DeleteTenant on a tenant name that is absent from the Registry or
\* already soft-deleted fails at the lookup, with "not found" when the
\* Registry answered, before any mutation: no Document is marked deleted and
\* no Registry row changes.
C24_DeleteInactiveFails ==
    [][\A r \in Slots :
          (DeletesInactive(r) /\ reqs'[r] # reqs[r]) =>
              /\ reqs'[r].pc = "done"
              /\ reqs'[r].status = 500
              /\ ~reqs'[r].flipped /\ reqs'[r].count = 0
              /\ Len(reqs'[r].calls) = 1
              /\ reqs'[r].calls[1].op = "GetTenantByName"
              /\ IF reqs'[r].calls[1].err = "ErrNoRows"
                 THEN reqs'[r].error = "tenant not found"
                 ELSE /\ reqs'[r].calls[1].err = "connection refused"
                      /\ reqs'[r].error = "error checking tenant"
              /\ UNCHANGED <<registry, stores, objects>>]_vars

\* a delete of a tenant that was already soft-deleted failed with "not
\* found"; the tenant has a Document
C24_Witness ==
    \E r \in Slots :
        LET rq == reqs[r]
        IN  /\ rq.kind = "delete" /\ rq.pc = "done" /\ rq.status = 500
            /\ rq.error = "tenant not found"
            /\ \E row \in rq.rows0 : row[2]
            /\ RowDeleted(rq.name)
            /\ stores[rq.name].docs # <<>>

\* the operations of GetOrCreateTenant, and the positions of an upload
\* inside it
TenantOps == {"GetTenantByName", "CreateTenantDatabase", "CreateTenant"}
TenantPcs == {"lookup", "createdb", "insert"}

\* GetOrCreateTenant of the upload rq failed
TenantFailed(rq) == rq.kind = "upload" /\ FailedCalls(rq, TenantOps) # {}

\* the Documents of the tenant are the same before and after the step
DocsUnchanged(tenantName) ==
    stores'[tenantName].docs = stores[tenantName].docs

\* C25: when GetOrCreateTenant fails during an upload, the request ends with
\* an infrastructure error (500), and the request has written no blob to
\* the Object Store and no Document: it made no call after the failed one,
\* and none of its steps changed the Object Store or the Documents.
C25_TenantFailureWritesNothing ==
    /\ [](\A r \in Slots :
            LET rq == reqs[r]
            IN  TenantFailed(rq) =>
                  /\ rq.pc = "done" /\ rq.at \in TenantPcs
                  /\ rq.status = 500
                  /\ rq.error = "Failed to get/create tenant"
                  /\ FailedCalls(rq, TenantOps) = {Len(rq.calls)}
                  /\ \A i \in DOMAIN rq.calls : rq.calls[i].op \in TenantOps
                  /\ rq.path = NoPath /\ rq.docId = 0)
    /\ [][\A r \in Slots :
            (/\ reqs[r].kind = "upload" /\ reqs[r].pc \in TenantPcs
             /\ reqs'[r] # reqs[r]) =>
                /\ objects' = objects
                /\ DocsUnchanged(reqs[r].name)]_vars

\* an upload for a soft-deleted tenant failed at the insert of the row,
\* while the stores held a blob and a Document of an earlier upload
C25_Witness ==
    \E r \in Slots :
        LET rq == reqs[r]
        IN  /\ TenantFailed(rq) /\ rq.at = "insert"
            /\ rq.calls[Len(rq.calls)] = Call("CreateTenant", "unique_violation")
            /\ Cardinality(objects) = 1
            /\ Len(stores[rq.name].docs) = 1

\* the insert of the Document of the upload rq failed
InsertFailed(rq) ==
    /\ rq.kind = "upload"
    /\ \E i \in CallsOf(rq, "InsertDocument") : rq.calls[i].err # ""

\* C26: when the Document insert fails after the object-store put
\* succeeded, the upload ends with a failure (500), no Document exists for
\* it, and the blob it stored remains in the Object Store: no step, of this
\* or of a later request, removes a blob.
C26_OrphanedBlob ==
    /\ [](\A r \in Slots :
            LET rq == reqs[r]
            IN  InsertFailed(rq) =>
                  /\ rq.pc = "done" /\ rq.at = "record"
                  /\ rq.status = 500
                  /\ rq.error = "Failed to store document"
                  /\ \E j \in CallsOf(rq, "UploadFile") : rq.calls[j].err = ""
                  /\ rq.docId = 0 /\ DocsOf(rq) = {}
                  /\ [key |-> rq.path, file |-> rq.file] \in objects)
    /\ [][objects \subseteq objects']_vars

\* an upload ended with a failed insert; its blob is the only one in the
\* Object Store and the store of its tenant holds no Document
C26_Witness ==
    \E r \in Slots :
        LET rq == reqs[r]
        IN  /\ InsertFailed(rq) /\ rq.pc = "done"
            /\ ObjectKeys = {rq.path}
            /\ stores[rq.name].docs = <<>>

\* the Documents of all tenant stores, as pairs of tenant name and index
AllDocs ==
    UNION {{<<t, i>> : i \in DOMAIN stores[t].docs} : t \in ValidNames}

DocAt(d) == stores[d[1]].docs[d[2]]

\* C27: in every reachable state every Document of every tenant store
\* carries a storage_path that names a blob present in the Object Store
\* (the blob of the file the Document was made from), and the storage keys
\* of distinct successful uploads are distinct: every successful put added
\* a blob, no two blobs share a key, and no two Documents share a path.
C27_PathsNameBlobs ==
    /\ \A d \in AllDocs :
          \E o \in objects :
              /\ o.key = DocAt(d).storage_path
              /\ o.key.tenant = d[1]
              /\ o.file.filename = DocAt(d).file_name
              /\ o.file.size = DocAt(d).file_size
    /\ \A d1, d2 \in AllDocs :
          d1 # d2 => DocAt(d1).storage_path # DocAt(d2).storage_path
    /\ \A o1, o2 \in objects : o1.key = o2.key => o1 = o2
    /\ Cardinality(ObjectKeys) = uuids

\* two uploads of the same file for the same tenant succeeded: two
\* Documents, one of them marked deleted, and two blobs
C27_Witness ==
    \E t \in ValidNames :
        /\ Len(stores[t].docs) = 2
        /\ stores[t].docs[1].file_name = stores[t].docs[2].file_name
        /\ stores[t].docs[1].is_deleted /\ ~stores[t].docs[2].is_deleted
        /\ Cardinality(objects) = 2

\* the fields of a Registry row, and of a Document, that no operation
\* writes after the creation
RowIdentity(row) ==
    <<row.id, row.tenant_name, row.db_host, row.db_port, row.db_name,
      row.created_at>>
DocIdentity(doc) ==
    <<doc.id, doc.tenant_name, doc.file_name, doc.file_size,
      doc.storage_path, doc.extracted_text, doc.summary, doc.uploaded_at>>

\* every Registry row is kept by the step, with its identity; a row that
\* changes is changed by the Registry update of a delete or of a restore
\* of its tenant; a new row is the insert of an upload
RowsKept ==
    /\ \A i \in DOMAIN registry :
          /\ i \in DOMAIN registry'
          /\ RowIdentity(registry'[i]) = RowIdentity(registry[i])
          /\ registry'[i] # registry[i] =>
                \E r \in Slots :
                    /\ reqs[r].name = registry[i].tenant_name
                    /\ \/ reqs[r].kind = "delete" /\ reqs[r].pc = "del_flip"
                       \/ reqs[r].kind = "restore" /\ reqs[r].pc = "res_flip"
    /\ Len(registry') > Len(registry) =>
          /\ Len(registry') = Len(registry) + 1
          /\ \E r \in Slots : reqs[r].kind = "upload" /\ reqs[r].pc = "insert"

\* every Document is kept by the step, with everything but its deletion
\* mark
DocsKept ==
    \A t \in ValidNames :
        \A i \in DOMAIN stores[t].docs :
            /\ i \in DOMAIN stores'[t].docs
            /\ DocIdentity(stores'[t].docs[i]) = DocIdentity(stores[t].docs[i])

\* C28: no operation of the service ever removes a Registry row or a
\* Document: a row or a Document that exists exists after every step, and
\* a row's id, tenant_name, db_host, db_port, db_name and created_at never
\* change (status, is_deleted and deleted_at are changed, by delete and
\* restore only).
C28_NothingErased == [][RowsKept /\ DocsKept]_vars

\* a delete has marked two Documents and the row of their tenant; the row
\* and the Documents are there
C28_Witness ==
    \E r \in Slots :
        LET rq == reqs[r]
        IN  /\ rq.kind = "delete" /\ rq.status = 200 /\ rq.count = 2
            /\ \E i \in RowsOf(rq.name) :
                  /\ registry[i].id = rq.tenant.id
                  /\ registry[i].db_name = DBName(rq.name)
                  /\ registry[i].is_deleted
            /\ Len(stores[rq.name].docs) = 2

\* C29: DeleteTenant and RestoreTenant leave the Object Store unchanged:
\* no step of a delete or of a restore, from the arrival of the request to
\* its response, whether it succeeds or fails, changes the set of blobs or
\* their contents.
C29_ObjectStoreUntouched ==
    [][\A r \in Slots :
          (reqs'[r] # reqs[r] /\ reqs'[r].kind \in {"delete", "restore"}) =>
              objects' = objects]_vars

\* a restore that followed a delete of the tenant has unmarked a Document,
\* and the blob of the Document is in the Object Store
C29_Witness ==
    \E r \in Slots :
        LET rq == reqs[r]
        IN  /\ rq.kind = "restore" /\ rq.status = 200 /\ rq.count > 0
            /\ rq.after.kind = "delete" /\ rq.after.status = 200
            /\ objects # {}
            /\ \A d \in AllDocs : DocAt(d).storage_path \in ObjectKeys

\* the lookup of the upload rq failed with an error other than "not found"
LookupFailed(rq) ==
    /\ rq.kind = "upload"
    /\ \E i \in CallsOf(rq, "GetTenantByName") :
          rq.calls[i].err \notin {"", "ErrNoRows"}

\* C30: when the Registry lookup in GetOrCreateTenant fails with any error
\* other than not-found, GetOrCreateTenant returns an infrastructure error
\* without provisioning a Document Store and without inserting a Registry
\* row: the lookup is the only call of the request, and the step leaves the
\* Registry and the Document Stores as they were.
C30_LookupFailureAborts ==
    /\ [](\A r \in Slots :
            LET rq == reqs[r]
            IN  LookupFailed(rq) =>
                  /\ rq.pc = "done" /\ rq.at = "lookup"
                  /\ rq.status = 500
                  /\ rq.error = "Failed to get/create tenant"
                  /\ rq.tenant = NoTenant
                  /\ Len(rq.calls) = 1)
    /\ [][\A r \in Slots :
            (reqs'[r] # reqs[r] /\ LookupFailed(reqs'[r])) =>
                UNCHANGED <<registry, stores, objects>>]_vars

\* the lookup for a name without a row and without a store failed, and
\* there is still no row and no store for the name
C30_Witness ==
    \E r \in Slots :
        LET rq == reqs[r]
        IN  /\ LookupFailed(rq) /\ rq.pc = "done"
            /\ rq.rows0 = {} /\ RowsOf(rq.name) = {}
            /\ ~stores[rq.name].exists

\* the store of the tenant exists and no Registry row carries the name
Orphaned(tenantName) ==
    stores[tenantName].exists /\ RowsOf(tenantName) = {}

\* the last call the request made
LastCall(rq) == rq.calls[Len(rq.calls)]

\* C31, as the specification states it: an orphaned store (provisioned,
\* with no Registry row because the insert failed) remains, and provisioning
\* it again is tolerated: a later GetOrCreateTenant for the name that the
\* infrastructure serves passes CreateTenantDatabase and goes on to insert
\* the row.
C31_Original ==
    [][\A r \in Slots :
          (/\ reqs[r].kind = "upload" /\ reqs[r].pc = "createdb"
           /\ Orphaned(reqs[r].name)
           /\ reqs'[r] # reqs[r]
           /\ LastCall(reqs'[r]).err \notin InfraErrors) =>
              /\ reqs'[r].pc = "insert"
              /\ Orphaned(reqs[r].name)']_vars

\* every Document of every store carries the name of the tenant of the
\* store, in tenant_name and in its storage path, and every Registry row
\* names the store of its tenant, tenant_<tenant_name>
StoredWithOwner ==
    /\ \A d \in AllDocs :
          /\ DocAt(d).tenant_name = d[1]
          /\ DocAt(d).storage_path.tenant = d[1]
    /\ \A i \in DOMAIN registry :
          registry[i].db_name = DBName(registry[i].tenant_name)

\* a step of a request changes the store of the tenant the request names
\* and no other; an upload that writes a Document holds the Registry row of
\* that tenant, whose db_name is the name of the store written
OwnStoreOnly ==
    \A r \in Slots :
        reqs'[r] # reqs[r] =>
            /\ \A t \in ValidNames \ {reqs'[r].name} : stores'[t] = stores[t]
            /\ \A t \in ValidNames :
                  Len(stores'[t].docs) > Len(stores[t].docs) =>
                      /\ reqs[r].kind = "upload" /\ reqs[r].name = t
                      /\ reqs[r].tenant.tenant_name = t
                      /\ reqs[r].tenant.db_name = DBName(t)

\* C32: tenant isolation.  In every reachable state every Document stored
\* in the store of tenant T has tenant_name = T; the store an upload writes
\* to is the one named by the db_name of T's Registry row (tenant_<T>); and
\* DeleteTenant or RestoreTenant of T, like every other request for T,
\* changes no Document of any other tenant.
C32_TenantIsolation ==
    /\ []StoredWithOwner
    /\ [][OwnStoreOnly]_vars

\* two tenants have a Document each; a delete of one of them has marked its
\* Document, and the Document of the other is live
C32_Witness ==
    \E r \in Slots : \E t \in ValidNames :
        LET rq == reqs[r]
        IN  /\ rq.kind = "delete" /\ rq.status = 200 /\ rq.count = 1
            /\ t # rq.name
            /\ Len(stores[rq.name].docs) = 1 /\ Len(stores[t].docs) = 1
            /\ LiveDocs(stores[rq.name].docs) = {}
            /\ LiveDocs(stores[t].docs) = {1}
            /\ RowActive(t) /\ RowDeleted(rq.name)

\* the upload rq arrived while the Registry row of its name was
\* soft-deleted, GetOrCreateTenant has returned, and every call it made
\* was served
UploadedToDeleted(rq) ==
    /\ Returned(rq)
    /\ \E row \in rq.rows0 : row[2]
    /\ Healthy(rq)

\* C33, as it is stated: an upload for a tenant name whose Registry row is
\* soft-deleted fails with an infrastructure error: the lookup reports
\* not-found, the insert then violates the uniqueness constraint, the
\* deleted row is left as it was (not reactivated, not duplicated), and no
\* blob and no Document are written.
C33_Original ==
    \A r \in Slots :
        LET rq == reqs[r]
        IN  UploadedToDeleted(rq) =>
              /\ rq.pc = "done" /\ rq.status = 500
              /\ rq.calls = <<Call("GetTenantByName", "ErrNoRows"),
                              Call("CreateTenantDatabase", ""),
                              Call("CreateTenant", "unique_violation")>>
              /\ \A i \in RowsOf(rq.name) :
                    <<registry[i].id, registry[i].is_deleted>> \in rq.rows0
              /\ Cardinality(RowsOf(rq.name)) = 1
              /\ rq.path = NoPath /\ rq.docId = 0

\* what holds of such an upload whatever CreateCollection answers for the
\* store that exists: it fails in GetOrCreateTenant, at the provisioning or
\* at the insert, the row stays as it was and nothing is written
DeletedNameRefused ==
    \A r \in Slots :
        LET rq == reqs[r]
        IN  UploadedToDeleted(rq) =>
              /\ rq.pc = "done" /\ rq.status = 500
              /\ rq.error = "Failed to get/create tenant"
              /\ rq.calls[1] = Call("GetTenantByName", "ErrNoRows")
              /\ LastCall(rq) \in {Call("CreateTenant", "unique_violation"),
                                   Call("CreateTenantDatabase",
                                        "unable to create collection")}
              /\ \A i \in RowsOf(rq.name) :
                    <<registry[i].id, registry[i].is_deleted>> \in rq.rows0
              /\ Cardinality(RowsOf(rq.name)) = 1
              /\ rq.path = NoPath /\ rq.docId = 0

\* C34, as it is stated: under any interleaving of uploads, deletes and
\* restores on one tenant in which no store call fails, once all of them
\* have finished a tenant whose Registry row is deleted has no non-deleted
\* Document.
C34_Original ==
    \A t \in ValidNames :
        (Quiet /\ RowDeleted(t)) => LiveDocs(stores[t].docs) = {}

\* the deletes in the slots, and the Documents the delete in slot r has
\* counted
Deletes == {r \in Slots : reqs[r].kind = "delete"}
Counted(r) == IF r \in Deletes THEN reqs[r].count ELSE 0

\* the sum of the counts of all deletes
RECURSIVE SumCounted(_)
SumCounted(S) ==
    IF S = {} THEN 0
    ELSE LET r == CHOOSE x \in S : TRUE
         IN  Counted(r) + SumCounted(S \ {r})

\* C35: of several concurrent DeleteTenant calls on the same active tenant
\* at most one returns success, and the documents_marked_deleted counts of
\* all the calls add up to the number of Documents that were live, each
\* Document counted by exactly one call: at every moment the counts add up
\* to the number of Documents marked so far, and every call that is past
\* its marking leaves no Document live.
C35_ConcurrentDeletes ==
    /\ Cardinality({r \in Deletes : reqs[r].status = 200}) <= 1
    /\ \A t \in ValidNames :
          (\A r \in Deletes : reqs[r].name = t) /\ Deletes # {} =>
              /\ SumCounted(Slots) = Cardinality(DeletedDocs(stores[t].docs))
              /\ (\E r \in Deletes : CallsOf(reqs[r], "SoftDeleteAllDocuments") # {})
                    => SumCounted(Slots) = Len(stores[t].docs)
    /\ \A r \in Deletes :
          reqs[r].pc = "done" /\ reqs[r].status = 500 /\ reqs[r].at = "del_flip"
              => \E r2 \in Deletes : r2 # r /\ reqs[r2].status = 200

\* two DeleteTenant calls overlapped on a tenant with two Documents: each
\* marked one of them, one call succeeded and the other failed at the row
C35_Witness ==
    \E r1, r2 \in Deletes :
        /\ reqs[r1].status = 200 /\ reqs[r1].count = 1
        /\ reqs[r2].status = 500 /\ reqs[r2].count = 1
        /\ reqs[r2].at = "del_flip"
        /\ Len(stores[reqs[r1].name].docs) = 2

\* the request in slot r is in flight
InFlight(r) == reqs[r].pc \notin Rest

\* the positions of a request at which a step of it is enabled whatever
\* the other requests do: the steps have no guard but the position
StepPcs ==
    {"lookup", "createdb", "insert", "extract", "store", "summarize",
     "record", "del_lookup", "del_mark", "del_flip", "res_flip",
     "res_unmark"}

\* a request that has its response keeps it: the slot changes only when
\* the next request arrives in it
OneResponse ==
    \A r \in Slots :
        (reqs[r].pc = "done" /\ reqs'[r] # reqs[r]) =>
            /\ reqs'[r].calls = <<>>
            /\ reqs'[r].status \in {0, 400}
            /\ reqs'[r].after = IF reqs'[r].name \in ValidNames
                                THEN prev[reqs'[r].name] ELSE NoPrev

\* C36: every upload, delete and restore request terminates with exactly
\* one response, provided each call it issues returns: a request in flight
\* can always take its next step, whatever the other requests do, it ends,
\* with a response that is a success or a failure, and its response is not
\* changed afterwards.
C36_Terminates ==
    /\ \A r \in Slots : InFlight(r) ~> reqs[r].pc = "done"
    /\ [](\A r \in Slots :
            /\ InFlight(r) => reqs[r].pc \in StepPcs /\ reqs[r].status = 0
            /\ reqs[r].pc = "done" => reqs[r].status \in {200, 400, 500})
    /\ [][OneResponse]_vars

\* an upload and a delete that overlapped have both been answered
C36_Witness ==
    \E r1, r2 \in Slots :
        /\ reqs[r1].kind = "upload" /\ reqs[r1].status = 200
        /\ reqs[r2].kind = "delete" /\ reqs[r2].pc = "done"
        /\ reqs[r2].after.kind = "none"
        /\ reqs[r1].after.kind = "none"

\* the restore rq arrived while the Registry row of its tenant was
\* soft-deleted
RestoresDeleted(rq) ==
    rq.kind = "restore" /\ \E row \in rq.rows0 : row[2]

\* C37: RestoreTenant on a soft-deleted tenant whose store holds N deleted
\* Documents, when its calls are served, succeeds, reports
\* documents_restored = N (the Documents of the store that were not live
\* when the request arrived), and leaves the tenant row active (is_deleted
\* false, deleted_at null) and every Document of the tenant non-deleted with
\* deleted_at removed.
C37_RestoreCounts ==
    \A r \in Slots :
        LET rq == reqs[r]
            docs == stores[rq.name].docs
        IN  (RestoresDeleted(rq) /\ rq.pc = "done") =>
              /\ Healthy(rq) => rq.status = 200
              /\ rq.status = 200 =>
                    /\ rq.count = Len(docs) - Cardinality(rq.live0)
                    /\ \A i \in RowsOf(rq.name) :
                          /\ ~registry[i].is_deleted
                          /\ registry[i].deleted_at = Null
                          /\ registry[i].status = "active"
                          /\ <<registry[i].id, TRUE>> \in rq.rows0
                    /\ \A i \in DOMAIN docs :
                          ~docs[i].is_deleted /\ docs[i].deleted_at = Null

\* a restore of a soft-deleted tenant with two deleted Documents reported 2
C37_Witness ==
    \E r \in Slots :
        LET rq == reqs[r]
        IN  /\ RestoresDeleted(rq) /\ rq.status = 200
            /\ rq.count = 2 /\ rq.live0 = {}
            /\ Len(stores[rq.name].docs) = 2

\* the rows of list are in descending order of key
Descending(list, key) ==
    \A a, b \in DOMAIN list : a < b => list[a][key] >= list[b][key]

\* list holds every row of the Registry whose is_deleted is deleted, once,
\* and nothing else
ListsRows(list, deleted) ==
    /\ \A i \in DOMAIN registry :
          registry[i].is_deleted = deleted =>
              Cardinality({k \in DOMAIN list : list[k] = registry[i]}) = 1
    /\ \A k \in DOMAIN list :
          /\ list[k].is_deleted = deleted
          /\ \E i \in DOMAIN registry : list[k] = registry[i]

ListKinds == {"list", "list_deleted"}

\* a step that answers a list request writes to no store
ListWritesNothing ==
    \A r \in Slots :
        (reqs'[r] # reqs[r] /\ reqs'[r].kind \in ListKinds) =>
            /\ registry' = registry /\ stores' = stores
            /\ objects' = objects
            /\ reqs'[r].pc = "done"

\* C38: ListTenants returns the active tenants ordered by creation time
\* descending and ListDeletedTenants returns the soft-deleted tenants
\* ordered by deletion time descending; neither modifies any store.
C38_Lists ==
    /\ [](\A r \in Slots :
            LET rq == reqs[r]
            IN  /\ (rq.kind = "list" /\ rq.status = 200) =>
                      /\ ListsRows(rq.tenants, FALSE)
                      /\ Descending(rq.tenants, "created_at")
                      /\ rq.count = Len(rq.tenants)
                /\ (rq.kind = "list_deleted" /\ rq.status = 200) =>
                      /\ ListsRows(rq.tenants, TRUE)
                      /\ Descending(rq.tenants, "deleted_at")
                      /\ rq.count = Len(rq.tenants)
                /\ (rq.kind \in ListKinds /\ rq.status # 200) =>
                      rq.tenants = <<>>)
    /\ [][ListWritesNothing]_vars

\* both lists were answered with two tenants, and the tenant created first
\* was deleted last
C38_Witness ==
    \E r \in Slots :
        LET rq == reqs[r]
        IN  /\ rq.kind = "list_deleted" /\ rq.status = 200
            /\ Len(rq.tenants) = 2
            /\ rq.tenants[1].created_at < rq.tenants[2].created_at
            /\ rq.tenants[1].deleted_at > rq.tenants[2].deleted_at

\* the spellings of the extension .pdf
PdfSpellings ==
    {<<".", p, d, f>> : p \in {"p", "P"}, d \in {"d", "D"}, f \in {"f", "F"}}

\* the name ends in .pdf, in any case
EndsInPdf(name) ==
    \E k \in 0..Len(name) :
        /\ Len(name) - k = 4
        /\ SubSeq(name, k + 1, Len(name)) \in PdfSpellings

\* the file that C39 says is accepted
Acceptable(file) ==
    /\ file # NoFile
    /\ EndsInPdf(file.filename)
    /\ file.size > 0
    /\ file.size <= 50 * 1024 * 1024

\* C39: ValidatePDF accepts a file if and only if its name ends in .pdf
\* (case-insensitive), its size is greater than 0 and its size is at most
\* 50 MB; a missing file, another extension, an empty file or a larger file
\* is rejected: the upload is answered 400 and goes no further.
C39_ValidatePDF ==
    \A r \in Slots :
        LET rq == reqs[r]
        IN  rq.kind = "upload" =>
              /\ ValidatePDF(rq.file) = "" <=> Acceptable(rq.file)
              /\ Acceptable(rq.file) <=> rq.status # 400
              /\ ~Acceptable(rq.file) =>
                    /\ rq.pc = "done" /\ rq.calls = <<>>

\* a file of exactly 50 MB with the extension in capitals was accepted and
\* its upload answered 200
C39_Witness ==
    \E r \in Slots :
        LET rq == reqs[r]
        IN  /\ rq.kind = "upload" /\ rq.status = 200
            /\ rq.file.size = MaxFileSize
            /\ rq.file.filename = <<"a", ".", "P", "D", "F">>
            /\ started.upload = 1

====
